---- MODULE Spec2Model ----
(***************************************************************************)
(* Model of harmoniq-maestro's deduplicator (deduplicator/pkg/service):    *)
(* RunApp indexes the library tree into duplicate groups, reads every .m3u *)
(* playlist, classifies group members as not-safe / safe to delete and     *)
(* renames the safe ones into the duplicates folder.                       *)
(*                                                                         *)
(* Strings are sequences of one-character strings, so that the string      *)
(* operations of the code (filepath.Base, filepath.Ext, strings.Split,     *)
(* strings.Contains, slicing) are computed as the code computes them.      *)
(***************************************************************************)
EXTENDS Integers, Sequences, FiniteSets, TLC

(***************************************************************************)
(* Bounds of the model.                                                    *)
(***************************************************************************)
\* largest number of files in the initial library tree
MaxFiles == 4
\* largest number of lines in the playlists directory, all files together
MaxLines == 2
\* number of consecutive invocations of the program that are explored
MaxRuns == 2

(***************************************************************************)
(* Characters and strings.                                                 *)
(***************************************************************************)
\* the characters used, in byte order (Go compares strings bytewise)
Alphabet ==
    << " ", "-", ".", "/", "0", "1", "2", "3", "4", "5", "6", "7", "8", "9",
       ":", "A", "M", "S", "X", "a", "b", "c", "d", "e", "f", "g", "h", "i",
       "k", "l", "m", "n", "o", "p", "q", "r", "s", "t", "u", "w", "x", "y",
       "z" >>

Ord(c) == CHOOSE i \in 1..Len(Alphabet) : Alphabet[i] = c

Slash == "/"
Dot == "."

\* s[n:] of Go, for n <= len(s)
SliceFrom(s, n) == SubSeq(s, n + 1, Len(s))

\* s[:n] of Go, for n <= len(s)
SliceTo(s, n) == SubSeq(s, 1, n)

\* strings.HasPrefix
HasPrefix(s, pre) == Len(pre) <= Len(s) /\ SubSeq(s, 1, Len(pre)) = pre

\* strings.Contains(s, substr): substr occurs in s (the empty string always does)
Contains(s, substr) ==
    \E i \in 0..(Len(s) - Len(substr)) : SubSeq(s, i + 1, i + Len(substr)) = substr

\* index (1-based) of the first occurrence of character c in s at or after
\* position i, 0 when absent
RECURSIVE IndexFrom(_, _, _)
IndexFrom(s, c, i) ==
    IF i > Len(s) THEN 0
    ELSE IF s[i] = c THEN i
    ELSE IndexFrom(s, c, i + 1)

\* index (1-based) of the first occurrence of character c in s, 0 when absent
IndexOf(s, c) == IndexFrom(s, c, 1)

\* index (1-based) of the last occurrence of character c in s at or before
\* position i, 0 when absent
RECURSIVE LastIndexFrom(_, _, _)
LastIndexFrom(s, c, i) ==
    IF i = 0 THEN 0
    ELSE IF s[i] = c THEN i
    ELSE LastIndexFrom(s, c, i - 1)

\* index (1-based) of the last occurrence of character c in s, 0 when absent
LastIndexOf(s, c) == LastIndexFrom(s, c, Len(s))

\* strings.Split(s, sep) for a one-character separator: never empty, "" gives [""]
RECURSIVE Split(_, _)
Split(s, sep) ==
    LET i == IndexOf(s, sep)
    IN  IF i = 0 THEN << s >>
        ELSE << SubSeq(s, 1, i - 1) >> \o Split(SubSeq(s, i + 1, Len(s)), sep)

\* path with its trailing slashes stripped (first loop of filepath.Base)
RECURSIVE StripTrailingSlashes(_)
StripTrailingSlashes(path) ==
    IF Len(path) > 0 /\ path[Len(path)] = Slash
    THEN StripTrailingSlashes(SubSeq(path, 1, Len(path) - 1))
    ELSE path

\* filepath.Base: the last element of path; "." for "", "/" for only slashes
Base(path) ==
    IF path = << >> THEN << Dot >>
    ELSE LET t == StripTrailingSlashes(path)
             e == SliceFrom(t, LastIndexOf(t, Slash))
         IN  IF e = << >> THEN << Slash >> ELSE e

\* filepath.Ext: the suffix beginning at the final dot of the last element
Ext(path) ==
    LET d == LastIndexOf(path, Dot)
    IN  IF d > 0 /\ d > LastIndexOf(path, Slash) THEN SliceFrom(path, d - 1) ELSE << >>

\* bytewise a < b on strings that agree before position i
RECURSIVE StrLessFrom(_, _, _)
StrLessFrom(a, b, i) ==
    IF i > Len(a) THEN i <= Len(b)
    ELSE IF i > Len(b) THEN FALSE
    ELSE IF a[i] = b[i] THEN StrLessFrom(a, b, i + 1)
    ELSE Ord(a[i]) < Ord(b[i])

\* bytewise a < b on strings
StrLess(a, b) == StrLessFrom(a, b, 1)

\* lexical order of two sequences of path elements
RECURSIVE ElemsLess(_, _)
ElemsLess(x, y) ==
    IF x = << >> THEN y # << >>
    ELSE IF y = << >> THEN FALSE
    ELSE IF x[1] = y[1] THEN ElemsLess(Tail(x), Tail(y))
    ELSE StrLess(x[1], y[1])

\* filepath.Walk visits the names of every directory in sorted order, depth
\* first: p is visited before q
WalkBefore(p, q) == ElemsLess(Split(p, Slash), Split(q, Slash))

RECURSIVE WalkOrder(_)
WalkOrder(S) ==
    IF S = {} THEN << >>
    ELSE LET m == CHOOSE x \in S : \A y \in S \ {x} : WalkBefore(x, y)
         IN  << m >> \o WalkOrder(S \ {m})

\* the decimal digits
Digits == << "0", "1", "2", "3", "4", "5", "6", "7", "8", "9" >>

IsDigit(c) == \E i \in 1..Len(Digits) : Digits[i] = c

DigitValue(c) == (CHOOSE i \in 1..Len(Digits) : Digits[i] = c) - 1

\* strconv.Itoa
RECURSIVE Itoa(_)
Itoa(n) ==
    IF n < 0 THEN << "-" >> \o Itoa(0 - n)
    ELSE IF n < Len(Digits) THEN << Digits[n + 1] >>
    ELSE Itoa(n \div Len(Digits)) \o << Digits[(n % Len(Digits)) + 1] >>

\* the value of a string of digits, read from the left with acc so far
RECURSIVE DigitsValue(_, _)
DigitsValue(s, acc) ==
    IF s = << >> THEN acc
    ELSE DigitsValue(Tail(s), acc * Len(Digits) + DigitValue(Head(s)))

\* strconv.Atoi: an optional sign and at least one digit, anything else is an
\* error
Atoi(s) ==
    LET signed == s # << >> /\ Head(s) \in { "-", "+" }
        body == IF signed THEN Tail(s) ELSE s
    IN  IF body = << >> \/ \E i \in DOMAIN body : ~IsDigit(body[i])
        THEN [err |-> TRUE, value |-> 0]
        ELSE [err |-> FALSE,
              value |-> IF signed /\ Head(s) = "-"
                        THEN 0 - DigitsValue(body, 0)
                        ELSE DigitsValue(body, 0)]

\* unicode.IsSpace, on the characters used
IsSpace(c) == c \in { " ", "\t", "\n" }

RECURSIVE TrimLeft(_)
TrimLeft(s) == IF s # << >> /\ IsSpace(Head(s)) THEN TrimLeft(Tail(s)) ELSE s

RECURSIVE TrimRight(_)
TrimRight(s) ==
    IF s # << >> /\ IsSpace(s[Len(s)]) THEN TrimRight(SubSeq(s, 1, Len(s) - 1)) ELSE s

\* strings.TrimSpace
TrimSpace(s) == TrimRight(TrimLeft(s))

\* strings.Fields, with cur the field being read
RECURSIVE FieldsFrom(_, _)
FieldsFrom(s, cur) ==
    IF s = << >> THEN (IF cur = << >> THEN << >> ELSE << cur >>)
    ELSE IF IsSpace(Head(s))
         THEN (IF cur = << >> THEN << >> ELSE << cur >>) \o FieldsFrom(Tail(s), << >>)
         ELSE FieldsFrom(Tail(s), Append(cur, Head(s)))

\* strings.Fields: the maximal runs of characters that are not white space
Fields(s) == FieldsFrom(s, << >>)

\* strings.ToLower, on the upper-case letters used
ToLower(s) ==
    LET UpperCase == << "A", "M", "S", "X" >>
        LowerCase == << "a", "m", "s", "x" >>
    IN  [i \in DOMAIN s |->
            IF \E j \in DOMAIN UpperCase : UpperCase[j] = s[i]
            THEN LowerCase[CHOOSE j \in DOMAIN UpperCase : UpperCase[j] = s[i]]
            ELSE s[i]]

(***************************************************************************)
(* Configuration (deduplicator/pkg/config) and the inputs explored.        *)
(***************************************************************************)
\* DESTINATION_FOLDER, the library root that is walked: "/lib"
LibRoot == << "/", "l", "i", "b" >>

\* ".lrc", the sidecar extension the walk skips
LrcExt == << ".", "l", "r", "c" >>

\* ".m3u", the playlist extension
M3uExt == << ".", "m", "3", "u" >>

\* values of DUPLICATES_FOLDER that are explored: "/q/" outside the library,
\* "/lib/q/" inside it, and "/lib/q" inside it without a trailing separator
\* (like the default "./duplicates" under the default library root "./")
DuplicatesFolders == { << "/", "q", "/" >>, << "/", "l", "i", "b", "/", "q", "/" >>, << "/", "l", "i", "b", "/", "q" >> }

\* library files
\* "/lib/a/Song.mp3"
FileA == << "/", "l", "i", "b", "/", "a", "/", "S", "o", "n", "g", ".", "m", "p", "3" >>
\* "/lib/b/Song.mp3"
FileB == << "/", "l", "i", "b", "/", "b", "/", "S", "o", "n", "g", ".", "m", "p", "3" >>
\* "/lib/b/Song.lrc"
FileBLrc == << "/", "l", "i", "b", "/", "b", "/", "S", "o", "n", "g", ".", "l", "r", "c" >>
\* "/lib/c/Song.mp3"
FileC == << "/", "l", "i", "b", "/", "c", "/", "S", "o", "n", "g", ".", "m", "p", "3" >>
\* "/lib/a/My.Song.mp3"
FileMyA == << "/", "l", "i", "b", "/", "a", "/", "M", "y", ".", "S", "o", "n", "g", ".", "m", "p", "3" >>
\* "/lib/b/My.Song.mp3"
FileMyB == << "/", "l", "i", "b", "/", "b", "/", "M", "y", ".", "S", "o", "n", "g", ".", "m", "p", "3" >>

FileUniverse == { FileA, FileB, FileBLrc, FileC, FileMyA, FileMyB }

\* playlist lines: root-relative, absolute, differently prefixed, a name with
\* two dots, and a line shorter than six characters
\* "a/Song.mp3"
LineRelA == << "a", "/", "S", "o", "n", "g", ".", "m", "p", "3" >>
\* "/lib/a/Song.mp3"
LineAbsA == << "/", "l", "i", "b", "/", "a", "/", "S", "o", "n", "g", ".", "m", "p", "3" >>
\* "music/a/Song.mp3"
LinePrefixedA == << "m", "u", "s", "i", "c", "/", "a", "/", "S", "o", "n", "g", ".", "m", "p", "3" >>
\* "a/My.Song.mp3"
LineMyA == << "a", "/", "M", "y", ".", "S", "o", "n", "g", ".", "m", "p", "3" >>
\* "Song"
LineShort == << "S", "o", "n", "g" >>

LineUniverse == { LineRelA, LineAbsA, LinePrefixedA, LineMyA, LineShort }

\* entries of the playlists directory: name, directory flag, how opening and
\* reading it ends ("ok", "openfail", "readfail"), and its lines
Entry(name, isDir, status, lines) ==
    [name |-> name, isDir |-> isDir, status |-> status, lines |-> lines]

\* "p1.m3u"
P1Name == << "p", "1", ".", "m", "3", "u" >>
\* "p2.m3u"
P2Name == << "p", "2", ".", "m", "3", "u" >>
\* "notes.txt"
NotesName == << "n", "o", "t", "e", "s", ".", "t", "x", "t" >>
\* "sub"
SubDirName == << "s", "u", "b" >>

FileStatus == { "ok", "openfail", "readfail" }

\* what the playlists directory holds besides p1.m3u
ExtraEntries ==
    { {},
      { Entry(NotesName, FALSE, "ok", { LineRelA }) },
      { Entry(SubDirName, TRUE, "ok", {}) },
      { Entry(P2Name, FALSE, "ok", { LineMyA }) },
      { Entry(P2Name, FALSE, "openfail", { LineMyA }) } }

\* os.ReadDir returns the entries sorted by filename
RECURSIVE SortByName(_)
SortByName(S) ==
    IF S = {} THEN << >>
    ELSE LET m == CHOOSE x \in S : \A y \in S \ {x} : StrLess(x.name, y.name)
         IN  << m >> \o SortByName(S \ {m})

(***************************************************************************)
(* State of the album-queue bot (album-queue/pkg/handler, pkg/db), a       *)
(* program of its own: the deduplicator leaves it alone and it leaves the  *)
(* deduplicator's state alone.                                             *)
(***************************************************************************)
VARIABLES
    whiteList,        \* handler.whiteList, from BOT_WHITELIST
    requests,         \* the collection download-queue-requests, in its natural order
    playlistRequests, \* the collection playlist-requests
    musicFiles,       \* the collection music-files: [artist, title]
    now,              \* time.Now().Unix()
    call,             \* the handler call that ran last: handler, sender, text
    before,           \* the collection download-queue-requests before that call
    dbOps,            \* the names of the Database methods that call invoked, in order
    replies,          \* what that call sent with h.reply
    webhookCalls,     \* how often that call invoked h.sendWebhook
    sentPages,        \* what that call sent with sendFailedPageFn
    editedPages,      \* what that call sent with editFailedPageFn
    callbackAcks,     \* what that call sent with respondCallbackFn
    inFlight          \* the HandleRedownload calls that run concurrently, each at its step

botVars ==
    << whiteList, requests, playlistRequests, musicFiles, now, call, before, dbOps,
       replies, webhookCalls, sentPages, editedPages, callbackAcks, inFlight >>

\* no handler has been called
NoCall == [handler |-> "none", sender |-> 0, text |-> << >>, hasMessage |-> FALSE]

\* the bot is not running
BotOff ==
    /\ whiteList = {}
    /\ requests = << >>
    /\ playlistRequests = << >>
    /\ musicFiles = {}
    /\ now = 0
    /\ call = NoCall
    /\ before = << >>
    /\ dbOps = << >>
    /\ replies = << >>
    /\ webhookCalls = 0
    /\ sentPages = << >>
    /\ editedPages = << >>
    /\ callbackAcks = << >>
    /\ inFlight = << >>

(***************************************************************************)
(* State of the deduplicator.                                              *)
(***************************************************************************)
VARIABLES
    fs,               \* the filesystem: path of every file -> its content
    cfg,              \* config.Config
    playlistDir,      \* the directory cfg.PlaylistsRoot: [ok, entries]
    pc,               \* position of RunApp
    duplicates,       \* RunApp's duplicates: base filename -> paths
    files,            \* entries of the playlists directory still to be visited
    usedFiles,        \* RunApp's usedFiles
    notSafeToDelete,  \* RunApp's notSafeToDelete
    safeToDelete,     \* RunApp's safeToDelete
    linesTodo,        \* keys of usedFiles the first range loop has not visited
    groupsTodo,       \* keys of duplicates the second range loop has not visited
    movesTodo,        \* keys of safeToDelete the move loop has not visited
    attempts,         \* the os.Rename calls of this run: [src, dst, ok]
    nAttempts,        \* how many os.Rename calls this run has made
    run,              \* number of the current invocation of the program
    fs0,              \* the filesystem when the current invocation started
    prev,             \* what the previous invocation saw and decided
    quarantined,      \* destinations of the successful moves of earlier invocations
    walkErr           \* the paths at which filepath.Walk hands the callback an error

dedupVars ==
    << fs, cfg, playlistDir, pc, duplicates, files, usedFiles, notSafeToDelete,
       safeToDelete, linesTodo, groupsTodo, movesTodo, attempts, nAttempts, run,
       fs0, prev, quarantined, walkErr >>

vars == << dedupVars, botVars >>

EmptyMap == [k \in {} |-> << >>]

NoPrev ==
    [ran |-> FALSE, fs0 |-> EmptyMap, notSafeToDelete |-> {}, safeToDelete |-> {},
     allMoved |-> FALSE]

(***************************************************************************)
(* trackDuplicates (service.go:133-174).                                   *)
(***************************************************************************)
\* the files below root, as filepath.Walk(root) names them
Under(root, p) == HasPrefix(p, root \o << Slash >>)

IsLrc(p) == Ext(Base(p)) = LrcExt

\* fullFilename[:len(fullFilename)-len(extension)]
BaseFilename(p) ==
    LET fullFilename == Base(p)
        extension == Ext(fullFilename)
    IN  SliceTo(fullFilename, Len(fullFilename) - Len(extension))

\* the paths of seq whose base filename is k, in the order of seq
RECURSIVE PathsOfKey(_, _)
PathsOfKey(seq, k) ==
    IF seq = << >> THEN << >>
    ELSE IF BaseFilename(Head(seq)) = k THEN << Head(seq) >> \o PathsOfKey(Tail(seq), k)
    ELSE PathsOfKey(Tail(seq), k)

\* faulty variant of SkipLrc: the callback does not skip .lrc files
KeepLrc(seq) == seq

\* lines 144-157: the walk's callback skips .lrc files and appends every
\* other file
RECURSIVE SkipLrc(_)
SkipLrc(seq) ==
    IF seq = << >> THEN << >>
    ELSE IF IsLrc(Head(seq)) THEN SkipLrc(Tail(seq))
    ELSE << Head(seq) >> \o SkipLrc(Tail(seq))

\* lines 135-173 on the files paths: filePathsMap, then the keys with more
\* than one path
DuplicatesOf(paths) ==
    LET walked == SkipLrc(WalkOrder(paths))
        filePathsMap ==
            [k \in { BaseFilename(walked[i]) : i \in DOMAIN walked } |->
                PathsOfKey(walked, k)]
    IN  [k \in { b \in DOMAIN filePathsMap : Len(filePathsMap[b]) > 1 } |->
            filePathsMap[k]]

\* the files of filesystem f below root
FilesUnder(f, root) == { p \in DOMAIN f : Under(root, p) }

\* lines 138-141: the callback returns nil when it is handed an error, so the
\* walk goes on without the path of the error: without that file, or without
\* everything below that directory, which for the root is every file
\* faulty variant of Walked: the callback returns the error it is handed, so
\* the walk ends at the first error
WalkedUntilError(f, root) ==
    { p \in FilesUnder(f, root) : \A w \in walkErr : WalkBefore(p, w) }

Walked(f, root) ==
    IF root \in walkErr THEN {}
    ELSE { p \in FilesUnder(f, root) :
             \A w \in walkErr : w # p /\ ~Under(w, p) }

trackDuplicates(playlistsRoot) == DuplicatesOf(Walked(fs, playlistsRoot))

(***************************************************************************)
(* Initial states: a library tree, a playlists directory, a configuration. *)
(***************************************************************************)
\* number of lines of the entries in extra (at most one entry)
LinesIn(extra) ==
    IF extra = {} THEN 0 ELSE Cardinality((CHOOSE e \in extra : TRUE).lines)

\* the playlists directories explored: one that cannot be listed, and those
\* holding p1.m3u and at most one more entry, with up to MaxLines lines
\* altogether, where either p1.m3u cannot be opened or read, or that other
\* entry is present, or neither
PlaylistDirs ==
    { [ok |-> FALSE, entries |-> << >>] }
    \cup
    { [ok |-> TRUE,
       entries |-> SortByName({ Entry(P1Name, FALSE, c[2], c[1]) } \cup c[3])] :
         c \in { d \in (SUBSET LineUniverse) \X FileStatus \X ExtraEntries :
                   /\ Cardinality(d[1]) + LinesIn(d[3]) <= MaxLines
                   /\ d[2] = "ok" \/ d[3] = {} } }

\* the walk errors explored: none, or, while the playlists directory holds
\* the readable p1.m3u only, the library root cannot be opened, the file
\* /lib/b/Song.mp3 cannot be examined, or the directory /lib/a cannot be read
WalkErrs(pd) ==
    IF pd.ok /\ Len(pd.entries) = 1 /\ pd.entries[1].status = "ok"
    THEN { {}, { LibRoot }, { FileB }, { SliceTo(FileA, Len(LibRoot) + 2) } }
    ELSE { {} }

Init ==
    /\ \E lib \in SUBSET FileUniverse :
          /\ Cardinality(lib) <= MaxFiles
          /\ fs = [p \in lib |-> p]
    /\ \E d \in DuplicatesFolders :
          cfg = [DestinationFolder |-> LibRoot, DuplicatesFolder |-> d]
    /\ playlistDir \in PlaylistDirs
    /\ walkErr \in WalkErrs(playlistDir)
    /\ pc = "start"
    /\ duplicates = EmptyMap
    /\ files = << >>
    /\ usedFiles = {}
    /\ notSafeToDelete = {}
    /\ safeToDelete = {}
    /\ linesTodo = {}
    /\ groupsTodo = {}
    /\ movesTodo = {}
    /\ attempts = {}
    /\ nAttempts = 0
    /\ run = 1
    /\ fs0 = fs
    /\ prev = NoPrev
    /\ quarantined = {}
    /\ BotOff

(***************************************************************************)
(* RunApp (service.go:14-102), one action per step.                        *)
(***************************************************************************)
\* line 16: duplicates := trackDuplicates(log, cfg.DestinationFolder)
TrackDuplicates ==
    /\ pc = "start"
    /\ duplicates' = trackDuplicates(cfg.DestinationFolder)
    /\ pc' = "readdir"
    /\ UNCHANGED << fs, cfg, playlistDir, files, usedFiles, notSafeToDelete,
                    safeToDelete, linesTodo, groupsTodo, movesTodo, attempts,
                    nAttempts, run, fs0, prev, quarantined,
                    walkErr, botVars >>

\* lines 22-25: os.ReadDir fails, log.Fatal ends the process
ReadDirFatal ==
    /\ pc = "readdir"
    /\ ~playlistDir.ok
    /\ pc' = "fatal"
    /\ UNCHANGED << fs, cfg, playlistDir, duplicates, files, usedFiles,
                    notSafeToDelete, safeToDelete, linesTodo, groupsTodo, movesTodo,
                    attempts, nAttempts, run, fs0, prev, quarantined,
                    walkErr, botVars >>

\* line 22: os.ReadDir succeeds
ReadDir ==
    /\ pc = "readdir"
    /\ playlistDir.ok
    /\ files' = playlistDir.entries
    /\ pc' = "read"
    /\ UNCHANGED << fs, cfg, playlistDir, duplicates, usedFiles, notSafeToDelete,
                    safeToDelete, linesTodo, groupsTodo, movesTodo, attempts,
                    nAttempts, run, fs0, prev, quarantined,
                    walkErr, botVars >>

\* lines 29-34: directories and files that are not .m3u are skipped
SkipEntry ==
    /\ pc = "read"
    /\ files # << >>
    /\ Head(files).isDir \/ Ext(Head(files).name) # M3uExt
    /\ files' = Tail(files)
    /\ UNCHANGED << fs, cfg, playlistDir, pc, duplicates, usedFiles,
                    notSafeToDelete, safeToDelete, linesTodo, groupsTodo, movesTodo,
                    attempts, nAttempts, run, fs0, prev, quarantined,
                    walkErr, botVars >>

\* faulty variant of ReadPlaylistFatal: a playlist that cannot be opened or
\* read is skipped
ReadPlaylistFatalSkips ==
    /\ pc = "read"
    /\ files # << >>
    /\ ~Head(files).isDir
    /\ Ext(Head(files).name) = M3uExt
    /\ Head(files).status # "ok"
    /\ files' = Tail(files)
    /\ UNCHANGED << fs, cfg, playlistDir, pc, duplicates, usedFiles,
                    notSafeToDelete, safeToDelete, linesTodo, groupsTodo, movesTodo,
                    attempts, nAttempts, run, fs0, prev, quarantined,
                    walkErr, botVars >>

\* lines 36-39 and 42-45 with utils.ReadLines (utils.go:47-60): os.Open fails
\* or the scanner reports an error, and log.Fatal ends the process
ReadPlaylistFatal ==
    /\ pc = "read"
    /\ files # << >>
    /\ ~Head(files).isDir
    /\ Ext(Head(files).name) = M3uExt
    /\ Head(files).status # "ok"
    /\ pc' = "fatal"
    /\ UNCHANGED << fs, cfg, playlistDir, duplicates, files, usedFiles,
                    notSafeToDelete, safeToDelete, linesTodo, groupsTodo, movesTodo,
                    attempts, nAttempts, run, fs0, prev, quarantined,
                    walkErr, botVars >>

\* lines 36-49: every line of the playlist becomes a key of usedFiles
ReadPlaylist ==
    /\ pc = "read"
    /\ files # << >>
    /\ ~Head(files).isDir
    /\ Ext(Head(files).name) = M3uExt
    /\ Head(files).status = "ok"
    /\ usedFiles' = usedFiles \cup Head(files).lines
    /\ files' = Tail(files)
    /\ UNCHANGED << fs, cfg, playlistDir, pc, duplicates, notSafeToDelete,
                    safeToDelete, linesTodo, groupsTodo, movesTodo, attempts,
                    nAttempts, run, fs0, prev, quarantined,
                    walkErr, botVars >>

\* line 50/54: the directory is exhausted, the range over usedFiles begins
EndRead ==
    /\ pc = "read"
    /\ files = << >>
    /\ linesTodo' = usedFiles
    /\ pc' = "mark"
    /\ UNCHANGED << fs, cfg, playlistDir, duplicates, files, usedFiles,
                    notSafeToDelete, safeToDelete, groupsTodo, movesTodo, attempts,
                    nAttempts, run, fs0, prev, quarantined,
                    walkErr, botVars >>

\* line 62: playlistSongPath[6:]
SliceStart == 6

\* line 56: the last element of the line, split at "/"
ShortPath(playlistSongPath) ==
    LET parts == Split(playlistSongPath, Slash) IN parts[Len(parts)]

\* line 57: the part of the short path before its first dot
UsedSongName(playlistSongPath) == Split(ShortPath(playlistSongPath), Dot)[1]

\* lines 59-62: the slice expression panics when the line has a group and is
\* shorter than six bytes
MarkPanics(playlistSongPath) ==
    /\ UsedSongName(playlistSongPath) \in DOMAIN duplicates
    /\ Len(playlistSongPath) < SliceStart

\* lines 59-66: the members of the line's group that contain the line's tail
MarkedBy(playlistSongPath) ==
    LET usedSongName == UsedSongName(playlistSongPath)
    IN  IF usedSongName \in DOMAIN duplicates
        THEN { duplicates[usedSongName][i] : i \in
                 { j \in DOMAIN duplicates[usedSongName] :
                     Contains(duplicates[usedSongName][j],
                              SliceFrom(playlistSongPath, SliceStart)) } }
        ELSE {}

\* lines 55-68, one iteration of the range over usedFiles (in map order)
MarkLine(playlistSongPath) ==
    /\ pc = "mark"
    /\ playlistSongPath \in linesTodo
    /\ ~MarkPanics(playlistSongPath)
    /\ notSafeToDelete' = notSafeToDelete \cup MarkedBy(playlistSongPath)
    /\ linesTodo' = linesTodo \ { playlistSongPath }
    /\ UNCHANGED << fs, cfg, playlistDir, pc, duplicates, files, usedFiles,
                    safeToDelete, groupsTodo, movesTodo, attempts, nAttempts, run,
                    fs0, prev, quarantined,
                    walkErr, botVars >>

\* line 62: slice bounds out of range, the process dies
MarkLinePanic(playlistSongPath) ==
    /\ pc = "mark"
    /\ playlistSongPath \in linesTodo
    /\ MarkPanics(playlistSongPath)
    /\ pc' = "panic"
    /\ UNCHANGED << fs, cfg, playlistDir, duplicates, files, usedFiles,
                    notSafeToDelete, safeToDelete, linesTodo, groupsTodo, movesTodo,
                    attempts, nAttempts, run, fs0, prev, quarantined,
                    walkErr, botVars >>

\* line 70-71: the range over duplicates begins
EndMark ==
    /\ pc = "mark"
    /\ linesTodo = {}
    /\ groupsTodo' = DOMAIN duplicates
    /\ pc' = "classify"
    /\ UNCHANGED << fs, cfg, playlistDir, duplicates, files, usedFiles,
                    notSafeToDelete, safeToDelete, linesTodo, movesTodo, attempts,
                    nAttempts, run, fs0, prev, quarantined,
                    walkErr, botVars >>

\* faulty variant of SafeAfterGroup: every member that is not marked becomes
\* safe to delete
SafeAfterGroupKeepsNone(safe, duplicatePaths) ==
    safe \cup { duplicatePaths[i] : i \in
                  { j \in DOMAIN duplicatePaths : duplicatePaths[j] \notin notSafeToDelete } }

\* faulty variant of SafeAfterGroup: a member becomes safe to delete only
\* while no path at all is safe to delete
SafeAfterGroupAnyKept(safe, duplicatePaths) ==
    LET unmarked == { j \in DOMAIN duplicatePaths :
                        duplicatePaths[j] \notin notSafeToDelete }
    IN  IF safe = {} /\ unmarked # {}
        THEN { duplicatePaths[CHOOSE j \in unmarked : \A h \in unmarked : j <= h] }
        ELSE safe

\* lines 72-78, the inner loop over one group: safe is safeToDelete, first is
\* duplicates[duplicateKey][0], rest the paths still to visit
RECURSIVE SafeAfterPaths(_, _, _)
SafeAfterPaths(safe, first, rest) ==
    IF rest = << >> THEN safe
    ELSE IF Head(rest) \notin notSafeToDelete /\ first \notin safe
         THEN SafeAfterPaths(safe \cup { Head(rest) }, first, Tail(rest))
         ELSE SafeAfterPaths(safe, first, Tail(rest))

SafeAfterGroup(safe, duplicatePaths) ==
    SafeAfterPaths(safe, duplicatePaths[1], duplicatePaths)

\* lines 71-79, one iteration of the range over duplicates (in map order)
ClassifyGroup(duplicateKey) ==
    /\ pc = "classify"
    /\ duplicateKey \in groupsTodo
    /\ safeToDelete' = SafeAfterGroup(safeToDelete, duplicates[duplicateKey])
    /\ groupsTodo' = groupsTodo \ { duplicateKey }
    /\ UNCHANGED << fs, cfg, playlistDir, pc, duplicates, files, usedFiles,
                    notSafeToDelete, linesTodo, movesTodo, attempts, nAttempts, run,
                    fs0, prev, quarantined,
                    walkErr, botVars >>

\* line 92: the range over safeToDelete begins
EndClassify ==
    /\ pc = "classify"
    /\ groupsTodo = {}
    /\ movesTodo' = safeToDelete
    /\ pc' = "move"
    /\ UNCHANGED << fs, cfg, playlistDir, duplicates, files, usedFiles,
                    notSafeToDelete, safeToDelete, linesTodo, groupsTodo, attempts,
                    nAttempts, run, fs0, prev, quarantined,
                    walkErr, botVars >>

\* line 94: cfg.DuplicatesFolder+filepath.Base(safe)
Destination(safe) == cfg.DuplicatesFolder \o Base(safe)

\* os.Rename(oldpath, newpath) when it succeeds: a file already at newpath is
\* replaced
Renamed(oldpath, newpath) ==
    IF oldpath = newpath THEN fs
    ELSE [p \in (DOMAIN fs \ { oldpath }) \cup { newpath } |->
            IF p = newpath THEN fs[oldpath] ELSE fs[p]]

\* lines 92-94, one iteration of the range over safeToDelete (in map order):
\* os.Rename succeeds
Move(safe) ==
    /\ pc = "move"
    /\ safe \in movesTodo
    /\ safe \in DOMAIN fs
    /\ fs' = Renamed(safe, Destination(safe))
    /\ attempts' = attempts \cup { [src |-> safe, dst |-> Destination(safe), ok |-> TRUE] }
    /\ nAttempts' = nAttempts + 1
    /\ movesTodo' = movesTodo \ { safe }
    /\ UNCHANGED << cfg, playlistDir, pc, duplicates, files, usedFiles,
                    notSafeToDelete, safeToDelete, linesTodo, groupsTodo, run, fs0,
                    prev, quarantined,
                    walkErr, botVars >>

\* faulty variant of MoveFails: the first failed move ends the loop
MoveFailsStops(safe) ==
    /\ pc = "move"
    /\ safe \in movesTodo
    /\ attempts' = attempts \cup { [src |-> safe, dst |-> Destination(safe), ok |-> FALSE] }
    /\ nAttempts' = nAttempts + 1
    /\ movesTodo' = {}
    /\ UNCHANGED << fs, cfg, playlistDir, pc, duplicates, files, usedFiles,
                    notSafeToDelete, safeToDelete, linesTodo, groupsTodo, run, fs0,
                    prev, quarantined,
                    walkErr, botVars >>

\* lines 94-98: os.Rename fails (permission, missing destination directory,
\* other device, missing source); the error is logged and the loop continues
MoveFails(safe) ==
    /\ pc = "move"
    /\ safe \in movesTodo
    /\ attempts' = attempts \cup { [src |-> safe, dst |-> Destination(safe), ok |-> FALSE] }
    /\ nAttempts' = nAttempts + 1
    /\ movesTodo' = movesTodo \ { safe }
    /\ UNCHANGED << fs, cfg, playlistDir, pc, duplicates, files, usedFiles,
                    notSafeToDelete, safeToDelete, linesTodo, groupsTodo, run, fs0,
                    prev, quarantined,
                    walkErr, botVars >>

\* line 101: return len(duplicates), nil
Return ==
    /\ pc = "move"
    /\ movesTodo = {}
    /\ pc' = "done"
    /\ UNCHANGED << fs, cfg, playlistDir, duplicates, files, usedFiles,
                    notSafeToDelete, safeToDelete, linesTodo, groupsTodo, movesTodo,
                    attempts, nAttempts, run, fs0, prev, quarantined,
                    walkErr, botVars >>

\* destinations of the successful moves among a
MovedTo(a) == { r.dst : r \in { t \in a : t.ok } }

\* main.go:11-32: the program is invoked again on the filesystem it left. An
\* invocation that found no duplicate group is not repeated, and one that
\* changed nothing is repeated once.
Rerun ==
    /\ pc = "done"
    /\ run < MaxRuns
    /\ DOMAIN duplicates # {}
    /\ ~prev.ran \/ fs # fs0
    /\ run' = run + 1
    /\ prev' = [ran |-> TRUE, fs0 |-> fs0, notSafeToDelete |-> notSafeToDelete,
                safeToDelete |-> safeToDelete,
                allMoved |-> \A r \in attempts : r.ok]
    /\ quarantined' = quarantined \cup MovedTo(attempts)
    /\ fs0' = fs
    /\ pc' = "start"
    /\ duplicates' = EmptyMap
    /\ files' = << >>
    /\ usedFiles' = {}
    /\ notSafeToDelete' = {}
    /\ safeToDelete' = {}
    /\ linesTodo' = {}
    /\ groupsTodo' = {}
    /\ movesTodo' = {}
    /\ attempts' = {}
    /\ nAttempts' = 0
    /\ UNCHANGED << fs, cfg, playlistDir, walkErr, botVars >>

Next ==
    \/ TrackDuplicates
    \/ ReadDirFatal
    \/ ReadDir
    \/ SkipEntry
    \/ ReadPlaylistFatal
    \/ ReadPlaylist
    \/ EndRead
    \/ \E playlistSongPath \in linesTodo : MarkLine(playlistSongPath)
    \/ \E playlistSongPath \in linesTodo : MarkLinePanic(playlistSongPath)
    \/ EndMark
    \/ \E duplicateKey \in groupsTodo : ClassifyGroup(duplicateKey)
    \/ EndClassify
    \/ \E safe \in movesTodo : Move(safe)
    \/ \E safe \in movesTodo : MoveFails(safe)
    \/ Return
    \/ Rerun

Spec == Init /\ [][Next]_vars

(***************************************************************************)
(* The album-queue bot: the documents and messages explored.               *)
(***************************************************************************)
\* "https://open.spotify.com/"
SpotifyURLPrefix ==
    << "h", "t", "t", "p", "s", ":", "/", "/", "o", "p", "e", "n", ".", "s", "p",
       "o", "t", "i", "f", "y", ".", "c", "o", "m", "/" >>

\* "https://open.spotify.com/track/"
TrackURLPrefix == SpotifyURLPrefix \o << "t", "r", "a", "c", "k", "/" >>

\* "https://open.spotify.com/track/" followed by the one-character id c
TrackURL(c) == TrackURLPrefix \o << c >>

TrackOne == TrackURL("1")
TrackTwo == TrackURL("2")

\* "https://open.spotify.com/album/1"
AlbumURL == SpotifyURLPrefix \o << "a", "l", "b", "u", "m", "/", "1" >>

\* "https://open.spotify.com/playlist/1"
PlaylistURL == SpotifyURLPrefix \o << "p", "l", "a", "y", "l", "i", "s", "t", "/", "1" >>

\* "hello", a text that is no URL
Hello == << "h", "e", "l", "l", "o" >>

\* a URL of white space only
BlankURL == << " " >>

\* the Telegram users: the one on the whitelist and one who is not
Senders == { 1, 2 }

\* values of BOT_WHITELIST that are explored
WhiteLists == { {}, { 1 } }

\* spotify.TrackMetadata
TrackMetadata(url, artist, title, found, failedAttempts, skipped) ==
    [SpotifyURL |-> url, Artist |-> artist, Title |-> title, Found |-> found,
     FailedAttempts |-> failedAttempts, Skipped |-> skipped]

\* a track that was not found, with one-character artist and title
Failed(url, artist, title, failedAttempts) ==
    TrackMetadata(url, << artist >>, << title >>, FALSE, failedAttempts, FALSE)

\* models.DownloadQueueRequest
DownloadQueueRequest(id, url, objectType, name, active, createdAt, updatedAt, creatorID, expectedTrackCount, foundTrackCount, trackMetadata) ==
    [ID |-> id, SpotifyURL |-> url, ObjectType |-> objectType, Name |-> name,
     Active |-> active, CreatedAt |-> createdAt, UpdatedAt |-> updatedAt,
     CreatorID |-> creatorID, ExpectedTrackCount |-> expectedTrackCount,
     FoundTrackCount |-> foundTrackCount, TrackMetadata |-> trackMetadata]

\* a stored request that is not active, of the whitelisted user
Stored(id, url, objectType, createdAt, updatedAt, trackMetadata) ==
    DownloadQueueRequest(<< "r", id >>, url, objectType, << "N", id >>, FALSE,
                         createdAt, updatedAt, 1, Len(trackMetadata), 0,
                         trackMetadata)

\* the stored requests that are explored
RequestUniverse ==
    LET \* an album with track 1 (three failed attempts) and track 2
        RequestAlbum ==
            Stored("1", AlbumURL, "album", 1, 1,
                   << Failed(TrackOne, "a", "x", 3), Failed(TrackTwo, "c", "z", 1) >>)

        \* a later playlist with track 1 under another artist and title, five attempts
        RequestPlaylist ==
            Stored("2", PlaylistURL, "playlist", 1, 2, << Failed(TrackOne, "b", "y", 5) >>)

        \* an active request for track 1 itself
        RequestActiveTrack ==
            [Stored("3", TrackOne, "track", 2, 2, << Failed(TrackOne, "a", "x", 0) >>)
                EXCEPT !.Active = TRUE]

        \* a request never updated (UpdatedAt 0): track 1 found, a track with a blank
        \* URL, track 2 failed twice
        RequestLegacy ==
            Stored("4", AlbumURL, "album", 2, 0,
                   << TrackMetadata(TrackOne, << "a" >>, << "x" >>, TRUE, 0, FALSE),
                      Failed(BlankURL, "c", "z", 1),
                      Failed(TrackTwo, "c", "z", 2) >>)

        \* a playlist that holds track 2 twice
        RequestTwice ==
            Stored("5", PlaylistURL, "playlist", 1, 1,
                   << Failed(TrackTwo, "c", "z", 1), Failed(TrackTwo, "c", "z", 4) >>)

        \* a playlist with five failed tracks, not in the order of their URLs
        RequestFive ==
            Stored("6", PlaylistURL, "playlist", 1, 1,
                   << Failed(TrackURL("5"), "f", "g", 1), Failed(TrackURL("3"), "f", "g", 1),
                      Failed(TrackURL("4"), "f", "g", 1), Failed(TrackURL("7"), "f", "g", 1),
                      Failed(TrackURL("6"), "f", "g", 1) >>)

        \* a playlist with six failed tracks
        RequestSix ==
            Stored("7", PlaylistURL, "playlist", 2, 2,
                   << Failed(TrackURL("8"), "f", "g", 1), Failed(TrackURL("9"), "f", "g", 1),
                      Failed(TrackURL("a"), "f", "g", 1), Failed(TrackURL("b"), "f", "g", 1),
                      Failed(TrackURL("c"), "f", "g", 1), Failed(TrackURL("d"), "f", "g", 1) >>)
    IN  { RequestAlbum, RequestPlaylist, RequestActiveTrack, RequestLegacy,
          RequestTwice, RequestFive, RequestSix }

\* the sequences without repetition of at most n elements of S
RECURSIVE SeqsOf(_, _)
SeqsOf(S, n) ==
    IF n = 0 THEN { << >> }
    ELSE { << >> } \cup
         UNION { { << x >> \o t : t \in SeqsOf(S \ { x }, n - 1) } : x \in S }

\* the music-files collections explored: empty, or the file of artist "A" and
\* title "X"
MusicLibraries == { {}, { [artist |-> << "A" >>, title |-> << "X" >>] } }

(***************************************************************************)
(* The Database of the bot (album-queue/pkg/db/db.go).                     *)
(***************************************************************************)
\* db.HasActiveRequestByURL: an active request of collection reqs has the URL
HasActiveRequestByURL(reqs, trackURL) ==
    \E i \in DOMAIN reqs : reqs[i].SpotifyURL = trackURL /\ reqs[i].Active

\* db.musicFileExistsInsensitive on the collection lib: blank artist or title
\* match nothing, otherwise both are compared without regard to case
musicFileExistsInsensitive(lib, artist, title) ==
    IF TrimSpace(artist) = << >> \/ TrimSpace(title) = << >> THEN FALSE
    ELSE \E f \in lib :
            /\ ToLower(f.artist) = ToLower(artist)
            /\ ToLower(f.title) = ToLower(title)

\* lines 434-437: UpdatedAt, or CreatedAt when UpdatedAt is 0
LastSeen(request) ==
    IF request.UpdatedAt = 0 THEN request.CreatedAt ELSE request.UpdatedAt

\* the tracks of the requests reqs in the order of the two loops (lines 433
\* and 439), each with the lastSeen and the ID of its request
RECURSIVE Occurrences(_)
Occurrences(reqs) ==
    IF reqs = << >> THEN << >>
    ELSE [i \in DOMAIN Head(reqs).TrackMetadata |->
            [track |-> Head(reqs).TrackMetadata[i],
             lastSeen |-> LastSeen(Head(reqs)),
             request |-> Head(reqs).ID]]
         \o Occurrences(Tail(reqs))

\* faulty variant of Unresolved: tracks with an active request are kept
UnresolvedIgnoresActive(o, lib, all) ==
    /\ ~o.track.Found
    /\ TrimSpace(o.track.SpotifyURL) # << >>
    /\ ~musicFileExistsInsensitive(lib, o.track.Artist, o.track.Title)

\* lines 440-458: the occurrence is not skipped: it is not found, its URL is
\* not blank, it is not in the music library lib and no request of the
\* collection all is active for its URL
Unresolved(o, lib, all) ==
    /\ ~o.track.Found
    /\ TrimSpace(o.track.SpotifyURL) # << >>
    /\ ~musicFileExistsInsensitive(lib, o.track.Artist, o.track.Title)
    /\ ~HasActiveRequestByURL(all, o.track.SpotifyURL)

\* lines 460-471: the first occurrence of a URL
FirstFailed(o) ==
    [SpotifyURL |-> o.track.SpotifyURL, Artist |-> o.track.Artist,
     Title |-> o.track.Title, FailedAttempts |-> o.track.FailedAttempts,
     SourceCount |-> 1, LastSeenAt |-> o.lastSeen]

\* faulty variant of NextFailed: artist and title of the first occurrence
\* are kept
NextFailedKeepsFirst(current, o) ==
    [current EXCEPT
        !.SourceCount = @ + 1,
        !.FailedAttempts = IF o.track.FailedAttempts > @ THEN o.track.FailedAttempts ELSE @,
        !.LastSeenAt = IF o.lastSeen >= @ THEN o.lastSeen ELSE @]

\* lines 473-482: a further occurrence of a URL
NextFailed(current, o) ==
    [current EXCEPT
        !.SourceCount = @ + 1,
        !.FailedAttempts = IF o.track.FailedAttempts > @ THEN o.track.FailedAttempts ELSE @,
        !.LastSeenAt = IF o.lastSeen >= @ THEN o.lastSeen ELSE @,
        !.Artist = IF o.lastSeen >= current.LastSeenAt THEN o.track.Artist ELSE @,
        !.Title = IF o.lastSeen >= current.LastSeenAt THEN o.track.Title ELSE @]

\* lines 431-484: failedByURL after the occurrences occs, starting from m
RECURSIVE FailedByURL(_, _)
FailedByURL(occs, m) ==
    IF occs = << >> THEN m
    ELSE LET o == Head(occs)
             url == o.track.SpotifyURL
         IN  IF url \notin DOMAIN m
             THEN FailedByURL(Tail(occs), m @@ (url :> FirstFailed(o)))
             ELSE FailedByURL(Tail(occs), [m EXCEPT ![url] = NextFailed(m[url], o)])

\* lines 491-496: the less function of sort.Slice
FailedLess(a, b) ==
    IF a.LastSeenAt = b.LastSeenAt THEN StrLess(a.SpotifyURL, b.SpotifyURL)
    ELSE a.LastSeenAt > b.LastSeenAt

\* lines 486-496: the values of failedByURL, sorted
RECURSIVE SortFailed(_)
SortFailed(S) ==
    IF S = {} THEN << >>
    ELSE LET t == CHOOSE x \in S : \A y \in S \ { x } : FailedLess(x, y)
         IN  << t >> \o SortFailed(S \ { t })

\* filterUnresolvedFailedTracks on the requests reqs, with musicFileExists
\* reading the collection lib and hasActiveRequestByURL the collection all
filterUnresolvedFailedTracks(reqs, lib, all) ==
    LET failedByURL ==
            FailedByURL(SelectSeq(Occurrences(reqs), LAMBDA o : Unresolved(o, lib, all)),
                        << >>)
    IN  SortFailed({ failedByURL[u] : u \in DOMAIN failedByURL })

\* db.GetUnresolvedFailedTracks (lines 158-184): the requests with a track
\* that is not found, filtered
GetUnresolvedFailedTracks(all, lib) ==
    filterUnresolvedFailedTracks(
        SelectSeq(all, LAMBDA r : \E i \in DOMAIN r.TrackMetadata : ~r.TrackMetadata[i].Found),
        lib, all)

\* the zero value FailedTrack{}
NoFailedTrack ==
    [SpotifyURL |-> << >>, Artist |-> << >>, Title |-> << >>, FailedAttempts |-> 0,
     SourceCount |-> 0, LastSeenAt |-> 0]

\* faulty variant of selectFailedTrackByURL: a URL that is not listed gets
\* the first track of the list
selectFailedTrackAny(tracks, trackURL) ==
    LET hits == SelectSeq(tracks, LAMBDA t : t.SpotifyURL = trackURL)
    IN  IF hits # << >> THEN [err |-> "nil", track |-> hits[1]]
        ELSE IF tracks # << >> THEN [err |-> "nil", track |-> tracks[1]]
        ELSE [err |-> "mongo.ErrNoDocuments", track |-> NoFailedTrack]

\* selectFailedTrackByURL (lines 501-509)
selectFailedTrackByURL(tracks, trackURL) ==
    LET hits == SelectSeq(tracks, LAMBDA t : t.SpotifyURL = trackURL)
    IN  IF hits # << >> THEN [err |-> "nil", track |-> hits[1]]
        ELSE [err |-> "mongo.ErrNoDocuments", track |-> NoFailedTrack]

(***************************************************************************)
(* The handlers of the bot (album-queue/pkg/handler), their helpers first. *)
(***************************************************************************)
\* utils.IsValidSpotifyURL
IsValidSpotifyURL(url) == HasPrefix(url, SpotifyURLPrefix)

\* faulty variant of isValidSpotifyTrackURL: every Spotify URL passes
isValidSpotifyAnyURL(url) == IsValidSpotifyURL(url)

\* isValidSpotifyTrackURL
isValidSpotifyTrackURL(url) == IsValidSpotifyURL(url) /\ HasPrefix(url, TrackURLPrefix)

\* faulty variant of InWhiteList: an empty whitelist admits everybody
InWhiteListOrOpen(id, whitelist) == whitelist = {} \/ id \in whitelist

\* utils.InWhiteList: slices.Contains(whitelist, id)
InWhiteList(id, whitelist) == id \in whitelist

\* failedPageSize
failedPageSize == 5

\* a text the bot sends, named by kind, with the values formatted into it
Reply(kind, args) == [kind |-> kind, args |-> args]

\* what a handler call does: its replies, its webhook calls, the failed-tracks
\* pages it sends and edits, its callback answers, the Database methods it
\* invokes, and the two request collections it leaves
Outcome(r, w, sent, edited, acks, ops, reqs, playlists) ==
    [replies |-> r, webhookCalls |-> w, sentPages |-> sent, editedPages |-> edited,
     callbackAcks |-> acks, dbOps |-> ops, requests |-> reqs,
     playlistRequests |-> playlists]

\* the call ends at the whitelist check: nothing is sent, read or written
Rejected == Outcome(<< >>, 0, << >>, << >>, << >>, << >>, requests, playlistRequests)

\* the call sends the replies r after invoking the Database methods ops,
\* without writing
Replied(r, ops) == Outcome(r, 0, << >>, << >>, << >>, ops, requests, playlistRequests)

\* uuid.NewV4(): an ID no stored request has
NewID == << "n" >> \o Itoa(Len(requests) + Len(playlistRequests))

\* db.NewDownloadRequest (db.go:99-113): the document that is inserted
NewDownloadRequest(url, name, creatorID, objectType, expectedTrackCount, trackMetadata) ==
    DownloadQueueRequest(NewID, url, objectType, name, TRUE, now, now, creatorID,
                         expectedTrackCount, 0, trackMetadata)

\* one line of a failed-tracks page (lines 493-509); Unknown is what is
\* shown for a blank artist or title
PageLine(track, i) ==
    LET Unknown == << "?" >>
    IN  [number |-> i,
         artist |-> IF TrimSpace(track.Artist) = << >> THEN Unknown
                    ELSE TrimSpace(track.Artist),
         title |-> IF TrimSpace(track.Title) = << >> THEN Unknown
                   ELSE TrimSpace(track.Title),
         url |-> track.SpotifyURL,
         attempts |-> track.FailedAttempts,
         sources |-> track.SourceCount]

\* lines 515-527: the inline keyboard of page page of totalPages
PageButtons(page, totalPages) ==
    (IF page > 0 THEN << [label |-> "back", data |-> Itoa(page - 1)] >> ELSE << >>)
    \o (IF page < totalPages - 1
        THEN << [label |-> "forward", data |-> Itoa(page + 1)] >> ELSE << >>)

\* faulty variant of PageBounds: the last page ends one track early
PageBoundsShort(n, page) ==
    [start |-> page * failedPageSize,
     end |-> IF page * failedPageSize + failedPageSize >= n THEN n - 1
             ELSE page * failedPageSize + failedPageSize]

\* lines 483-487: start and end of the page
PageBounds(n, page) ==
    [start |-> page * failedPageSize,
     end |-> IF page * failedPageSize + failedPageSize > n THEN n
             ELSE page * failedPageSize + failedPageSize]

\* no page, no inline keyboard
NoPage == [total |-> 0, page |-> 0, totalPages |-> 0, lines |-> << >>]
NoMarkup == [nil |-> TRUE, row |-> << >>]

\* renderFailedTracksPage: the text of the page, its inline keyboard and the
\* error
renderFailedTracksPage(failedTracks, page) ==
    LET n == Len(failedTracks)
        totalPages == (n + failedPageSize - 1) \div failedPageSize
        b == PageBounds(n, page)
    IN  IF n = 0
        THEN [err |-> "failed tracks list is empty", text |-> NoPage, markup |-> NoMarkup]
        ELSE IF page < 0 \/ page >= totalPages
        THEN [err |-> "page out of range", text |-> NoPage, markup |-> NoMarkup]
        ELSE [err |-> "nil",
              text |-> [total |-> n, page |-> page + 1, totalPages |-> totalPages,
                        lines |-> [j \in 1..(b.end - b.start) |->
                                     PageLine(failedTracks[b.start + j], b.start + j)]],
              markup |-> IF totalPages = 1 THEN NoMarkup
                         ELSE [nil |-> FALSE, row |-> PageButtons(page, totalPages)]]

\* a failed-tracks page as it is sent or edited
PageEvent(text, markup) == [text |-> text, markup |-> markup]

\* an answer to a callback
CallbackEvent(text, showAlert) == [text |-> text, showAlert |-> showAlert]

\* a message: the ID of its sender and its text; hasMessage is there for
\* the handlers of callbacks, which may come without their message
Message(sender, text) == [sender |-> sender, text |-> text, hasMessage |-> TRUE]

\* two words separated by one space
Words(a, b) == a \o << " " >> \o b

\* the texts sent to /redownload: no URL, track 1, track 1 with more white
\* space around it, track 2, an album, and track 1 followed by another word
RedownloadTexts ==
    LET CmdRedownload == << "/", "r", "e", "d", "o", "w", "n", "l", "o", "a", "d" >>
    IN  { CmdRedownload,
          Words(CmdRedownload, TrackOne),
          CmdRedownload \o << " ", " " >> \o TrackOne \o << " " >>,
          Words(CmdRedownload, TrackTwo),
          Words(CmdRedownload, AlbumURL),
          Words(Words(CmdRedownload, TrackOne), << "x" >>) }

\* the texts sent as plain text: a track, an album, no URL
PlainTexts == { TrackOne, AlbumURL, Hello }

\* the texts sent to /deactivate: no ID, the IDs r1, r3 and r9, and r1 after
\* two spaces
DeactivateTexts ==
    LET CmdDeactivate == << "/", "d", "e", "a", "c", "t", "i", "v", "a", "t", "e" >>
    IN  { CmdDeactivate,
          Words(CmdDeactivate, << "r", "1" >>),
          Words(CmdDeactivate, << "r", "3" >>),
          Words(CmdDeactivate, << "r", "9" >>),
          CmdDeactivate \o << " ", " ", "r", "1" >> }

\* the texts sent to /p and /pnp: no URL, a playlist, no Spotify URL
PlaylistTexts ==
    LET CmdPlaylist == << "/", "p" >>
    IN  { CmdPlaylist, Words(CmdPlaylist, PlaylistURL), Words(CmdPlaylist, Hello) }

\* the callbacks of the failed-tracks keyboard: a nil callback, one without
\* sender, and callbacks of either user with their data, with the message
\* they belong to or without it
Callback(isNil, sender, data, hasMessage) ==
    [isNil |-> isNil, sender |-> sender, text |-> data, hasMessage |-> hasMessage]

Callbacks ==
    { Callback(TRUE, 0, << >>, FALSE), Callback(FALSE, 0, << "0" >>, TRUE) }
    \cup { Callback(FALSE, u, d, TRUE) :
             u \in Senders,
             d \in { << "0" >>, << "1" >>, << " ", "2", " " >>, << "3" >>,
                     << "-", "1" >>, << "x" >>, << >> } }
    \cup { Callback(FALSE, 1, << "1" >>, FALSE) }

\* the calls of the Spotify service that may fail in a handler call
SpotifyErrs == { "GetObjectType", "GetObjectName", "GetTrackCount" }

\* what the Spotify service answers for a URL: a track, or an album of two
SpotifyObject(url) ==
    IF url = TrackOne
    THEN [objectType |-> "track", name |-> << "T" >>, trackCount |-> 1,
          trackMetadata |-> << Failed(TrackOne, "a", "x", 0) >>]
    ELSE [objectType |-> "album", name |-> << "A" >>, trackCount |-> 2,
          trackMetadata |-> << Failed(TrackOne, "a", "x", 0),
                               Failed(TrackTwo, "c", "z", 0) >>]

\* Start (lines 110-117)
StartOutcome(m) ==
    IF ~InWhiteList(m.sender, whiteList) THEN Rejected
    ELSE Replied(<< Reply("start", << >>) >>, << >>)

\* HandleText (lines 119-170)
TextOutcome(m, spErr, dbErr) ==
    LET obj == SpotifyObject(m.text)
        noCount == spErr = "GetTrackCount"
        first == IF noCount THEN << Reply("text: no track count", << >>) >> ELSE << >>
        trackCount == IF noCount THEN 0 ELSE obj.trackCount
        trackMetadata == IF noCount THEN << >> ELSE obj.trackMetadata
    IN  IF ~InWhiteList(m.sender, whiteList) THEN Rejected
        ELSE IF ~IsValidSpotifyURL(m.text)
        THEN Replied(<< Reply("text: not a spotify link", << >>) >>, << >>)
        ELSE IF spErr = "GetObjectType"
        THEN Replied(<< Reply("text: no object type", << >>) >>, << >>)
        ELSE IF spErr = "GetObjectName"
        THEN Replied(<< Reply("text: no object name", << >>) >>, << >>)
        ELSE IF dbErr = "NewDownloadRequest"
        THEN Replied(first \o << Reply("text: not queued", << >>) >>,
                     << "NewDownloadRequest" >>)
        ELSE Outcome(first \o << Reply("text: queued", << obj.name, Itoa(trackCount) >>) >>,
                     1, << >>, << >>, << >>, << "NewDownloadRequest" >>,
                     Append(requests,
                            NewDownloadRequest(m.text, obj.name, m.sender,
                                               obj.objectType, trackCount,
                                               trackMetadata)),
                     playlistRequests)

\* the key of foundMap (lines 555 and 566)
FoundKey(artist, title) == ToLower(artist) \o << " " >> \o ToLower(title)

\* compareTracks (lines 533-573) with db.FindMusicFiles (db.go:240-274),
\* which matches artist and title exactly
compareTracks(request) ==
    LET tm == request.TrackMetadata
        foundMusic == { f \in musicFiles :
                          \E i \in DOMAIN tm :
                              f.artist = tm[i].Artist /\ f.title = tm[i].Title }
        foundMap == { FoundKey(f.artist, f.title) : f \in foundMusic }
    IN  Cardinality({ i \in DOMAIN tm :
                        /\ ~tm[i].Skipped
                        /\ FoundKey(tm[i].Artist, tm[i].Title) \in foundMap })

\* lines 199: the requests whose found count /queue refreshes
Counted(r) == r.ExpectedTrackCount > 0 /\ Len(r.TrackMetadata) > 0

\* lines 200-217: the request with its found count refreshed
QueueUpdated(r) ==
    LET foundCount == compareTracks(r)
    IN  [r EXCEPT !.FoundTrackCount = foundCount,
                  !.UpdatedAt = now,
                  !.Active = IF foundCount = r.ExpectedTrackCount /\ r.Active
                             THEN FALSE ELSE @]

\* the Database methods the loop of lines 198-223 invokes for the requests rs
RECURSIVE QueueOps(_, _)
QueueOps(rs, dbErr) ==
    IF rs = << >> THEN << >>
    ELSE (IF ~Counted(Head(rs)) THEN << >>
          ELSE IF dbErr = "FindMusicFiles" THEN << "FindMusicFiles" >>
          ELSE << "FindMusicFiles", "UpdateDownloadRequest" >>)
         \o QueueOps(Tail(rs), dbErr)

\* HandleQueue (lines 172-312) with db.UpdateDownloadRequest (db.go:276-299)
QueueOutcome(m, dbErr) ==
    LET active == SelectSeq(requests, LAMBDA r : r.Active)
        playlists == IF dbErr = "GetActivePlaylists" THEN << >>
                     ELSE SelectSeq(playlistRequests, LAMBDA r : r.Active)
        reads == << "GetActiveRequests", "GetActivePlaylists" >>
    IN  IF ~InWhiteList(m.sender, whiteList) THEN Rejected
        ELSE IF dbErr = "GetActiveRequests"
        THEN Replied(<< Reply("queue: not read", << >>) >>, << "GetActiveRequests" >>)
        ELSE IF active = << >> /\ playlists = << >>
        THEN Replied(<< Reply("queue: empty", << >>) >>, reads)
        ELSE Outcome(<< Reply("queue", << Itoa(Len(active)), Itoa(Len(playlists)) >>) >>,
                     0, << >>, << >>, << >>, reads \o QueueOps(active, dbErr),
                     [i \in DOMAIN requests |->
                        IF /\ requests[i].Active
                           /\ Counted(requests[i])
                           /\ dbErr \notin { "FindMusicFiles", "UpdateDownloadRequest" }
                        THEN QueueUpdated(requests[i])
                        ELSE requests[i]],
                     playlistRequests)

\* HandleFailed (lines 314-342)
FailedOutcome(m, dbErr) ==
    LET failedTracks == GetUnresolvedFailedTracks(requests, musicFiles)
        rendered == renderFailedTracksPage(failedTracks, 0)
        reads == << "GetUnresolvedFailedTracks" >>
    IN  IF ~InWhiteList(m.sender, whiteList) THEN Rejected
        ELSE IF dbErr = "GetUnresolvedFailedTracks"
        THEN Replied(<< Reply("failed: not read", << >>) >>, reads)
        ELSE IF Len(failedTracks) = 0
        THEN Replied(<< Reply("failed: none", << >>) >>, reads)
        ELSE IF rendered.err # "nil"
        THEN Replied(<< Reply("failed: not rendered", << >>) >>, reads)
        ELSE Outcome(<< >>, 0, << PageEvent(rendered.text, rendered.markup) >>, << >>,
                     << >>, reads, requests, playlistRequests)

\* the call answers the callback with acks after editing the pages edited
Answered(edited, acks, ops) ==
    Outcome(<< >>, 0, << >>, edited, acks, ops, requests, playlistRequests)

\* HandleFailedPage (lines 344-388)
FailedPageOutcome(c, dbErr) ==
    LET page == Atoi(TrimSpace(c.text))
        failedTracks == GetUnresolvedFailedTracks(requests, musicFiles)
        rendered == renderFailedTracksPage(failedTracks, page.value)
        reads == << "GetUnresolvedFailedTracks" >>
    IN  IF c.isNil THEN Rejected
        ELSE IF c.sender = 0 \/ ~InWhiteList(c.sender, whiteList)
        THEN Answered(<< >>, << CallbackEvent("access denied", TRUE) >>, << >>)
        ELSE IF page.err
        THEN Answered(<< >>, << CallbackEvent("bad page number", TRUE) >>, << >>)
        ELSE IF dbErr = "GetUnresolvedFailedTracks"
        THEN Answered(<< >>, << CallbackEvent("not refreshed", TRUE) >>, reads)
        ELSE IF Len(failedTracks) = 0
        THEN Answered(IF c.hasMessage THEN << PageEvent(NoPage, NoMarkup) >> ELSE << >>,
                      << CallbackEvent("", FALSE) >>, reads)
        ELSE IF rendered.err # "nil"
        THEN Answered(<< >>, << CallbackEvent("bad page number", TRUE) >>, reads)
        ELSE Answered(IF c.hasMessage
                      THEN << PageEvent(rendered.text, rendered.markup) >> ELSE << >>,
                      << CallbackEvent("", FALSE) >>, reads)

\* lines 433-436: the name of the request that is created
RequestName(failedTrack) ==
    LET requestName == TrimSpace(TrimSpace(failedTrack.Artist) \o << " ", "-", " " >>
                                 \o TrimSpace(failedTrack.Title))
    IN  IF requestName = << "-" >> \/ requestName = << >>
        THEN failedTrack.SpotifyURL
        ELSE requestName

\* faulty variant of ResetMetadata: the failed attempts of the track are
\* carried over
ResetMetadataKeepsAttempts(failedTrack) ==
    << TrackMetadata(failedTrack.SpotifyURL, failedTrack.Artist, failedTrack.Title,
                     FALSE, failedTrack.FailedAttempts, FALSE) >>

\* lines 438-447: the track metadata of the request that is created
ResetMetadata(failedTrack) ==
    << TrackMetadata(failedTrack.SpotifyURL, failedTrack.Artist, failedTrack.Title,
                     FALSE, 0, FALSE) >>

\* HandleRedownload (lines 390-467) with db.GetUnresolvedFailedTrackByURL
\* (db.go:186-193)
RedownloadOutcome(m, dbErr) ==
    LET msg == Fields(m.text)
        trackURL == TrimSpace(msg[2])
        selected == selectFailedTrackByURL(
                        GetUnresolvedFailedTracks(requests, musicFiles), trackURL)
        failedTrack == selected.track
        asked == << "HasActiveRequestByURL" >>
        looked == << "HasActiveRequestByURL", "GetUnresolvedFailedTrackByURL" >>
        tried == << "HasActiveRequestByURL", "GetUnresolvedFailedTrackByURL",
                    "NewDownloadRequest" >>
    IN  IF ~InWhiteList(m.sender, whiteList) THEN Rejected
        ELSE IF Len(msg) # 2
        THEN Replied(<< Reply("redownload: usage", << >>) >>, << >>)
        ELSE IF ~isValidSpotifyTrackURL(trackURL)
        THEN Replied(<< Reply("redownload: not a track link", << >>) >>, << >>)
        ELSE IF dbErr = "HasActiveRequestByURL"
        THEN Replied(<< Reply("redownload: active not checked", << >>) >>, asked)
        ELSE IF HasActiveRequestByURL(requests, trackURL)
        THEN Replied(<< Reply("redownload: already active", << >>) >>, asked)
        ELSE IF dbErr = "GetUnresolvedFailedTrackByURL"
        THEN Replied(<< Reply("redownload: failure not checked", << >>) >>, looked)
        ELSE IF selected.err = "mongo.ErrNoDocuments"
        THEN Replied(<< Reply("redownload: not among failures", << >>) >>, looked)
        ELSE IF dbErr = "NewDownloadRequest"
        THEN Replied(<< Reply("redownload: not created", << >>) >>, tried)
        ELSE Outcome(<< Reply("redownload: created",
                              << failedTrack.SpotifyURL, failedTrack.Artist,
                                 failedTrack.Title >>) >>,
                     1, << >>, << >>, << >>, tried,
                     Append(requests,
                            NewDownloadRequest(failedTrack.SpotifyURL,
                                               RequestName(failedTrack), m.sender,
                                               "track", 1, ResetMetadata(failedTrack))),
                     playlistRequests)

\* HandleDeactivate (lines 575-598) with db.DeactivateRequest (db.go:223-238)
DeactivateOutcome(m, dbErr) ==
    LET s == Split(m.text, " ")
        id == s[2]
        ops == << "DeactivateRequest" >>
    IN  IF ~InWhiteList(m.sender, whiteList) THEN Rejected
        ELSE IF Len(s) # 2
        THEN Replied(<< Reply("deactivate: usage", << >>) >>, << >>)
        ELSE IF dbErr = "DeactivateRequest" \/ \A i \in DOMAIN requests : requests[i].ID # id
        THEN Replied(<< Reply("deactivate: failed", << >>) >>, ops)
        ELSE Outcome(<< Reply("deactivate: done", << >>) >>, 0, << >>, << >>, << >>, ops,
                     [i \in DOMAIN requests |->
                        IF requests[i].ID = id
                        THEN [requests[i] EXCEPT !.Active = FALSE, !.UpdatedAt = now]
                        ELSE requests[i]],
                     playlistRequests)

\* db.NewPlaylistRequest (db.go:123-140): the document that is inserted
NewPlaylistRequest(url, creatorID, noPull) ==
    [ID |-> NewID, SpotifyURL |-> url, Active |-> TRUE, CreatedAt |-> now,
     CreatorID |-> creatorID, NoPull |-> noPull]

\* HandlePlaylist (lines 600-630) and HandlePlaylistNoPull (lines 632-662),
\* which differ in noPull
PlaylistOutcome(m, noPull, dbErr) ==
    LET msg == Split(m.text, " ")
        playlistURL == msg[2]
        ops == << "NewPlaylistRequest" >>
    IN  IF ~InWhiteList(m.sender, whiteList) THEN Rejected
        ELSE IF Len(msg) # 2
        THEN Replied(<< Reply("playlist: usage", << >>) >>, << >>)
        ELSE IF ~IsValidSpotifyURL(playlistURL)
        THEN Replied(<< Reply("playlist: not a spotify link", << >>) >>, << >>)
        ELSE IF dbErr = "NewPlaylistRequest"
        THEN Replied(<< Reply("playlist: not queued", << >>) >>, ops)
        ELSE Outcome(<< Reply("playlist: queued", << >>) >>, 1, << >>, << >>, << >>, ops,
                     requests,
                     Append(playlistRequests,
                            NewPlaylistRequest(playlistURL, m.sender, noPull)))

(***************************************************************************)
(* The bot as a state machine: one action per handler.                     *)
(***************************************************************************)
\* largest number of documents in the two request collections together
MaxRequests == 2

\* time.Now().Unix() while the bot runs, later than every stored timestamp
BootTime == 3

\* the deduplicator is not running
DedupOff ==
    /\ fs = EmptyMap
    /\ cfg = [DestinationFolder |-> LibRoot, DuplicatesFolder |-> LibRoot]
    /\ playlistDir = [ok |-> FALSE, entries |-> << >>]
    /\ pc = "off"
    /\ duplicates = EmptyMap
    /\ files = << >>
    /\ usedFiles = {}
    /\ notSafeToDelete = {}
    /\ safeToDelete = {}
    /\ linesTodo = {}
    /\ groupsTodo = {}
    /\ movesTodo = {}
    /\ attempts = {}
    /\ nAttempts = 0
    /\ run = 0
    /\ fs0 = EmptyMap
    /\ prev = NoPrev
    /\ quarantined = {}
    /\ walkErr = {}

\* the bot starts on any stored requests and music files
BotInit ==
    /\ whiteList \in WhiteLists
    /\ requests \in SeqsOf(RequestUniverse, MaxRequests)
    /\ playlistRequests = << >>
    /\ musicFiles \in MusicLibraries
    /\ now = BootTime
    /\ call = NoCall
    /\ before = << >>
    /\ dbOps = << >>
    /\ replies = << >>
    /\ webhookCalls = 0
    /\ sentPages = << >>
    /\ editedPages = << >>
    /\ callbackAcks = << >>
    /\ inFlight = << >>
    /\ DedupOff

\* the bot waits for the next update: what the last call sent is forgotten
NextUpdate ==
    /\ call # NoCall
    /\ call' = NoCall
    /\ before' = << >>
    /\ dbOps' = << >>
    /\ replies' = << >>
    /\ webhookCalls' = 0
    /\ sentPages' = << >>
    /\ editedPages' = << >>
    /\ callbackAcks' = << >>
    /\ UNCHANGED << whiteList, requests, playlistRequests, musicFiles, now, inFlight,
                    dedupVars >>

\* the bot takes an update: the handler named handler is called with m and
\* does out, while the request collections stay within MaxRequests
Handled(handler, m, out) ==
    /\ call = NoCall
    /\ Len(out.requests) + Len(out.playlistRequests) <= MaxRequests
    /\ call' = [handler |-> handler, sender |-> m.sender, text |-> m.text,
                hasMessage |-> m.hasMessage]
    /\ before' = requests
    /\ requests' = out.requests
    /\ playlistRequests' = out.playlistRequests
    /\ dbOps' = out.dbOps
    /\ replies' = out.replies
    /\ webhookCalls' = out.webhookCalls
    /\ sentPages' = out.sentPages
    /\ editedPages' = out.editedPages
    /\ callbackAcks' = out.callbackAcks
    /\ UNCHANGED << whiteList, musicFiles, now, inFlight, dedupVars >>

Start(m) == Handled("Start", m, StartOutcome(m))

HandleText(m, spErr, dbErr) == Handled("HandleText", m, TextOutcome(m, spErr, dbErr))

HandleQueue(m, dbErr) == Handled("HandleQueue", m, QueueOutcome(m, dbErr))

HandleFailed(m, dbErr) == Handled("HandleFailed", m, FailedOutcome(m, dbErr))

HandleFailedPage(c, dbErr) == Handled("HandleFailedPage", c, FailedPageOutcome(c, dbErr))

HandleRedownload(m, dbErr) == Handled("HandleRedownload", m, RedownloadOutcome(m, dbErr))

HandleDeactivate(m, dbErr) == Handled("HandleDeactivate", m, DeactivateOutcome(m, dbErr))

HandlePlaylist(m, dbErr) == Handled("HandlePlaylist", m, PlaylistOutcome(m, FALSE, dbErr))

HandlePlaylistNoPull(m, dbErr) ==
    Handled("HandlePlaylistNoPull", m, PlaylistOutcome(m, TRUE, dbErr))

\* the failures explored for a call of sender u: those of errs when the call
\* gets past the whitelist check, none otherwise
ErrsFor(u, errs) == IF InWhiteList(u, whiteList) THEN errs \cup { "nil" } ELSE { "nil" }

BotNext ==
    \/ \E u \in Senders : Start(Message(u, << "/", "s", "t", "a", "r", "t" >>))
    \/ \E u \in Senders, t \in PlainTexts :
          \E spErr \in ErrsFor(u, SpotifyErrs), dbErr \in ErrsFor(u, { "NewDownloadRequest" }) :
              HandleText(Message(u, t), spErr, dbErr)
    \/ \E u \in Senders :
          \E dbErr \in ErrsFor(u, { "GetActiveRequests", "GetActivePlaylists",
                                    "FindMusicFiles", "UpdateDownloadRequest" }) :
              HandleQueue(Message(u, << "/", "q", "u", "e", "u", "e" >>), dbErr)
    \/ \E u \in Senders :
          \E dbErr \in ErrsFor(u, { "GetUnresolvedFailedTracks" }) :
              HandleFailed(Message(u, << "/", "f", "a", "i", "l", "e", "d" >>), dbErr)
    \/ \E c \in Callbacks :
          \E dbErr \in ErrsFor(c.sender, { "GetUnresolvedFailedTracks" }) :
              HandleFailedPage(c, dbErr)
    \/ \E u \in Senders, t \in RedownloadTexts :
          \E dbErr \in ErrsFor(u, { "HasActiveRequestByURL",
                                    "GetUnresolvedFailedTrackByURL",
                                    "NewDownloadRequest" }) :
              HandleRedownload(Message(u, t), dbErr)
    \/ \E u \in Senders, t \in DeactivateTexts :
          \E dbErr \in ErrsFor(u, { "DeactivateRequest" }) :
              HandleDeactivate(Message(u, t), dbErr)
    \/ \E u \in Senders, t \in PlaylistTexts :
          \E dbErr \in ErrsFor(u, { "NewPlaylistRequest" }) :
              HandlePlaylist(Message(u, t), dbErr)
    \/ \E u \in Senders, t \in PlaylistTexts :
          \E dbErr \in ErrsFor(u, { "NewPlaylistRequest" }) :
              HandlePlaylistNoPull(Message(u, t), dbErr)
    \/ NextUpdate

BotSpec == BotInit /\ [][BotNext]_vars

(***************************************************************************)
(* HandleRedownload calls that run concurrently. telebot runs every        *)
(* handler in a goroutine of its own (main.go sets no Synchronous), so the *)
(* Database calls of two HandleRedownload calls interleave; each Database  *)
(* call is one step.                                                       *)
(***************************************************************************)
\* how many HandleRedownload calls run at the same time
MaxCalls == 2

Calls == 1..MaxCalls

\* a call that has not arrived, at its step, with its sender, its trackURL,
\* the failedTrack it looked up and the kind of its reply
Flight(step, sender, trackURL, failedTrack, reply) ==
    [step |-> step, sender |-> sender, trackURL |-> trackURL, failedTrack |-> failedTrack,
     reply |-> reply]

NotArrived == Flight("idle", 0, << >>, NoFailedTrack, "none")

\* the call c goes on to step pc, or ends with a reply
GoesOn(c, step) ==
    /\ inFlight' = [inFlight EXCEPT ![c].step = step]
    /\ UNCHANGED requests

Ends(c, reply) ==
    /\ inFlight' = [inFlight EXCEPT ![c].step = "done", ![c].reply = reply]
    /\ UNCHANGED requests

\* the bot starts on any stored requests and music files, with the
\* whitelist of one user; before is the collection the calls start on
RaceInit ==
    /\ whiteList \in WhiteLists
    /\ requests \in SeqsOf(RequestUniverse, MaxRequests)
    /\ playlistRequests = << >>
    /\ musicFiles \in MusicLibraries
    /\ now = BootTime
    /\ call = NoCall
    /\ before = requests
    /\ dbOps = << >>
    /\ replies = << >>
    /\ webhookCalls = 0
    /\ sentPages = << >>
    /\ editedPages = << >>
    /\ callbackAcks = << >>
    /\ inFlight = [c \in Calls |-> NotArrived]
    /\ DedupOff

\* lines 390-408: the message m arrives and the call c checks the sender
\* and the text; the calls arrive in the order of their numbers
RedownloadArrives(c, m) ==
    LET msg == Fields(m.text)
        trackURL == TrimSpace(msg[2])
    IN  /\ inFlight[c].step = "idle"
        /\ \A b \in Calls : b < c => inFlight[b].step # "idle"
        /\ inFlight' =
              [inFlight EXCEPT ![c] =
                  IF ~InWhiteList(m.sender, whiteList)
                  THEN Flight("done", m.sender, << >>, NoFailedTrack, "none")
                  ELSE IF Len(msg) # 2
                  THEN Flight("done", m.sender, << >>, NoFailedTrack, "redownload: usage")
                  ELSE IF ~isValidSpotifyTrackURL(trackURL)
                  THEN Flight("done", m.sender, << >>, NoFailedTrack,
                              "redownload: not a track link")
                  ELSE Flight("check", m.sender, trackURL, NoFailedTrack, "none")]
        /\ UNCHANGED requests

\* lines 410-419: h.db.HasActiveRequestByURL and what follows from it
RedownloadChecksActive(c, dbErr) ==
    /\ inFlight[c].step = "check"
    /\ IF dbErr = "HasActiveRequestByURL"
       THEN Ends(c, "redownload: active not checked")
       ELSE IF HasActiveRequestByURL(requests, inFlight[c].trackURL)
       THEN Ends(c, "redownload: already active")
       ELSE GoesOn(c, "lookup")

\* lines 421-431: h.db.GetUnresolvedFailedTrackByURL and what follows from it
RedownloadLooksUp(c, dbErr) ==
    LET selected == selectFailedTrackByURL(
                        GetUnresolvedFailedTracks(requests, musicFiles),
                        inFlight[c].trackURL)
    IN  /\ inFlight[c].step = "lookup"
        /\ IF dbErr = "GetUnresolvedFailedTrackByURL"
           THEN Ends(c, "redownload: failure not checked")
           ELSE IF selected.err = "mongo.ErrNoDocuments"
           THEN Ends(c, "redownload: not among failures")
           ELSE /\ inFlight' = [inFlight EXCEPT ![c].step = "insert",
                                                ![c].failedTrack = selected.track]
                /\ UNCHANGED requests

\* lines 433-466: h.db.NewDownloadRequest, then the webhook and the reply
RedownloadInserts(c, dbErr) ==
    LET failedTrack == inFlight[c].failedTrack
    IN  /\ inFlight[c].step = "insert"
        /\ IF dbErr = "NewDownloadRequest"
           THEN Ends(c, "redownload: not created")
           ELSE /\ requests' =
                      Append(requests,
                             NewDownloadRequest(failedTrack.SpotifyURL,
                                                RequestName(failedTrack),
                                                inFlight[c].sender, "track", 1,
                                                ResetMetadata(failedTrack)))
                /\ inFlight' = [inFlight EXCEPT ![c].step = "done",
                                                ![c].reply = "redownload: created"]

\* what the concurrent calls leave alone
RaceRest ==
    << whiteList, playlistRequests, musicFiles, now, call, before, dbOps, replies,
       webhookCalls, sentPages, editedPages, callbackAcks, dedupVars >>

RaceNext ==
    \/ \E c \in Calls, u \in Senders, t \in RedownloadTexts :
          RedownloadArrives(c, Message(u, t)) /\ UNCHANGED RaceRest
    \/ \E c \in Calls, dbErr \in { "nil", "HasActiveRequestByURL" } :
          RedownloadChecksActive(c, dbErr) /\ UNCHANGED RaceRest
    \/ \E c \in Calls, dbErr \in { "nil", "GetUnresolvedFailedTrackByURL" } :
          RedownloadLooksUp(c, dbErr) /\ UNCHANGED RaceRest
    \/ \E c \in Calls, dbErr \in { "nil", "NewDownloadRequest" } :
          RedownloadInserts(c, dbErr) /\ UNCHANGED RaceRest

RaceSpec == RaceInit /\ [][RaceNext]_vars

(***************************************************************************)
(* Vocabulary of the properties.                                           *)
(***************************************************************************)
Range(seq) == { seq[i] : i \in DOMAIN seq }

\* the members of the group of key k
Members(k) == Range(duplicates[k])

RECURSIVE TrimLeadingSlashes(_)
TrimLeadingSlashes(s) ==
    IF s # << >> /\ Head(s) = Slash THEN TrimLeadingSlashes(Tail(s)) ELSE s

\* the library-root-relative form of a path or playlist line: a leading
\* library root is stripped, then leading separators are trimmed
ReferenceKey(s) ==
    TrimLeadingSlashes(
        IF HasPrefix(s, cfg.DestinationFolder \o << Slash >>)
        THEN SliceFrom(s, Len(cfg.DestinationFolder))
        ELSE s)

\* the .m3u files of the playlists directory
PlaylistFiles ==
    { e \in Range(playlistDir.entries) : ~e.isDir /\ Ext(e.name) = M3uExt }

\* every line of the files pf
LinesOf(pf) == UNION { e.lines : e \in pf }

\* every line of every .m3u file of the playlists directory
AllPlaylistLines == LinesOf(PlaylistFiles)

\* library path p is named by some playlist line, after normalization
Referenced(p) == \E l \in AllPlaylistLines : ReferenceKey(l) = ReferenceKey(p)

\* the playlists directory, or one of the files pf, cannot be opened or read
UnreadableAmong(pf) == ~playlistDir.ok \/ \E e \in pf : e.status # "ok"

\* the playlists directory, or one of its .m3u files, cannot be opened or read
Unreadable == UnreadableAmong(PlaylistFiles)

\* the quarantine directory named by cfg.DuplicatesFolder holds path q
InQuarantine(q) == Under(StripTrailingSlashes(cfg.DuplicatesFolder), q)

\* the classification of the current invocation is complete
Classified == pc \in { "move", "done" }

(***************************************************************************)
(* Properties.                                                             *)
(***************************************************************************)
\* C1: a library path whose root-relative form equals the normalized form of
\* some line of some .m3u playlist is never placed in safeToDelete and is
\* never handed to os.Rename, whatever its filename and the line's prefix.
C1_ReferencedNeverRemovable ==
    \A p \in FilesUnder(fs0, cfg.DestinationFolder) :
        Referenced(p) => p \notin safeToDelete /\ \A a \in attempts : a.src # p

\* C2: in every duplicate group fewer members are safe to delete than the
\* group has, and at least one member is never handed to os.Rename.
C2_KeepAtLeastOne ==
    \A k \in DOMAIN duplicates :
        /\ Cardinality(Members(k) \cap safeToDelete) < Len(duplicates[k])
        /\ \E m \in Members(k) : \A a \in attempts : a.src # m

\* a run ended in which a group without any marked member lost a member
C2_Witness ==
    /\ pc = "done"
    /\ \E k \in DOMAIN duplicates :
          /\ Members(k) \cap notSafeToDelete = {}
          /\ \E a \in attempts : a.ok /\ a.src \in Members(k)

\* C3: no move destroys a file: the content of every file that existed when
\* the run started is still found at some path, original or quarantine.
C3_NoFileDestroyed ==
    \A p \in DOMAIN fs0 : \E q \in DOMAIN fs : fs[q] = fs0[p]

\* C4: when no member of a group is referenced by any playlist, the members
\* safe to delete are exactly the members other than the first one.
C4_UnreferencedGroupKeepsPrimary ==
    Classified =>
        \A k \in DOMAIN duplicates :
            (\A m \in Members(k) : ~Referenced(m)) =>
                Members(k) \cap safeToDelete = Members(k) \ { duplicates[k][1] }

\* the scenario of C5: /lib/a/Song.mp3, /lib/b/Song.mp3, /lib/b/Song.lrc and
\* the playlist p1.m3u with the single line a/Song.mp3, first invocation
C5_Given ==
    /\ run = 1
    /\ fs0 = [p \in { FileA, FileB, FileBLrc } |-> p]
    /\ playlistDir =
          [ok |-> TRUE, entries |-> << Entry(P1Name, FALSE, "ok", { LineRelA }) >>]

\* C5: in that scenario exactly the group Song = [/lib/a/Song.mp3,
\* /lib/b/Song.mp3] is formed, a is marked not safe, b is safe to delete, and
\* after a run whose moves succeed b is in quarantine while a and the .lrc
\* file are in place.
C5_Scenario ==
    /\ C5_Given /\ pc # "start" =>
          /\ DOMAIN duplicates = { BaseFilename(FileA) }
          /\ duplicates[BaseFilename(FileA)] = << FileA, FileB >>
    /\ C5_Given /\ Classified =>
          /\ FileA \in notSafeToDelete
          /\ FileB \in safeToDelete
    /\ C5_Given /\ pc = "done" /\ (\A a \in attempts : a.ok) =>
          /\ FileB \notin DOMAIN fs
          /\ \E q \in DOMAIN fs : InQuarantine(q) /\ fs[q] = FileB
          /\ FileA \in DOMAIN fs /\ fs[FileA] = FileA
          /\ FileBLrc \in DOMAIN fs /\ fs[FileBLrc] = FileBLrc

\* C6: when the playlists directory or one of its .m3u files cannot be opened
\* or read, classification is never reached and nothing is moved; and when
\* the first move is about to be attempted the index is the index of every
\* file the walk of the library reaches, and from classification on every
\* line of every playlist is in usedFiles.
C6_FatalBeforeMutation ==
    LET pf == PlaylistFiles
    IN  /\ UnreadableAmong(pf) =>
              /\ pc \notin { "mark", "classify", "move", "done" }
              /\ nAttempts = 0
              /\ fs = fs0
        /\ pc = "fatal" => UnreadableAmong(pf) /\ nAttempts = 0 /\ fs = fs0
        /\ pc \in { "mark", "classify", "move", "done" } =>
              /\ usedFiles = LinesOf(pf)
              /\ files = << >>
        /\ pc = "move" /\ nAttempts = 0 =>
              /\ fs = fs0
              /\ duplicates = DuplicatesOf(Walked(fs, cfg.DestinationFolder))
        /\ nAttempts > 0 => pc \in { "move", "done" }

\* the run died on a playlist file although the library has duplicates
C6_Witness ==
    /\ pc = "fatal"
    /\ playlistDir.ok
    /\ DOMAIN duplicates # {}
    /\ usedFiles # {}

\* C7: a failed move does not end the batch: when the run returns, every
\* path of safeToDelete was handed to os.Rename exactly once, and every path
\* whose rename succeeded no longer holds its file.
C7_EveryMoveAttempted ==
    /\ pc = "done" =>
          /\ nAttempts = Cardinality(safeToDelete)
          /\ \A s \in safeToDelete : \E a \in attempts : a.src = s
    /\ \A a \in attempts :
          /\ a.src \in safeToDelete
          /\ a.ok /\ a.src # a.dst =>
                a.src \notin DOMAIN fs \/ fs[a.src] # fs0[a.src]

\* a run ended in which one move failed and another one succeeded
C7_Witness ==
    /\ pc = "done"
    /\ \E a, b \in attempts : ~a.ok /\ b.ok

\* C8: no .lrc file is a member of a group, so that every group has two
\* members, files of the library, that are not .lrc files; no .lrc file is
\* handed to os.Rename, and every file that is gone from its path or
\* replaced there is not a .lrc file.
C8_SidecarExcluded ==
    /\ \A k \in DOMAIN duplicates :
          /\ \A m \in Members(k) : m \in DOMAIN fs0 /\ ~IsLrc(m)
          /\ Cardinality(Members(k)) >= 2
    /\ \A a \in attempts : ~IsLrc(a.src)
    /\ \A p \in DOMAIN fs0 : p \notin DOMAIN fs \/ fs[p] # fs0[p] => ~IsLrc(p)

\* a run moved a member of a group whose key a .lrc file shares
C8_Witness ==
    /\ pc = "done"
    /\ \E p \in DOMAIN fs0 :
          /\ IsLrc(p)
          /\ BaseFilename(p) \in DOMAIN duplicates
          /\ \E a \in attempts : a.ok /\ a.src \in Members(BaseFilename(p))

\* C9: an invocation that starts from the filesystem the previous one
\* started from (same files, same playlists) ends its classification with
\* the notSafeToDelete and safeToDelete of the previous one, whatever the
\* orders in which the maps were ranged over.
C9_ClassificationRepeatable ==
    prev.ran /\ prev.fs0 = fs0 /\ Classified =>
        /\ notSafeToDelete = prev.notSafeToDelete
        /\ safeToDelete = prev.safeToDelete

\* a second classification of an unchanged library with two groups, two
\* playlist lines, marked members and members safe to delete
C9_Witness ==
    /\ prev.ran
    /\ prev.fs0 = fs0
    /\ Classified
    /\ Cardinality(DOMAIN duplicates) >= 2
    /\ Cardinality(usedFiles) >= 2
    /\ notSafeToDelete # {}
    /\ safeToDelete # {}

\* C10: a later invocation indexes no file that an earlier one moved to the
\* quarantine directory, and after an invocation all of whose moves
\* succeeded the next one moves nothing.
C10_SecondRunSkipsQuarantine ==
    /\ \A k \in DOMAIN duplicates : Members(k) \cap quarantined = {}
    /\ prev.ran /\ prev.allMoved => nAttempts = 0

\* C11: when the library root cannot be opened or walked, the run does not
\* go on to read the playlists and never returns normally.
C11_UnwalkableRootIsFatal ==
    cfg.DestinationFolder \in walkErr => pc \in { "start", "fatal" }

\* C12: from the first move attempt to the end of the run, whichever moves
\* were attempted and whichever failed, every group has a member whose file
\* is still at its path, and the file of every path of notSafeToDelete is
\* still at its path.
C12_ConsistentAtEveryStep ==
    pc \in { "move", "done" } =>
        /\ \A k \in DOMAIN duplicates :
              \E m \in Members(k) : m \in DOMAIN fs /\ fs[m] = fs0[m]
        /\ \A p \in notSafeToDelete : p \in DOMAIN fs /\ fs[p] = fs0[p]

\* C19: once classification is complete, a member of a group is in
\* notSafeToDelete exactly when its root-relative path equals the normalized
\* form of some playlist line; a line naming one member does not put the
\* other members of the group in notSafeToDelete.
C19_ProtectedIffExactMatch ==
    Classified =>
        \A k \in DOMAIN duplicates :
            \A m \in Members(k) : m \in notSafeToDelete <=> Referenced(m)

\* C20: once classification is complete, in every group the members in
\* notSafeToDelete and the members in safeToDelete are disjoint, and the
\* members in safeToDelete are all the members outside notSafeToDelete,
\* or all the members but the first when none is in notSafeToDelete.
C20_RemovableIsComplement ==
    Classified =>
        \A k \in DOMAIN duplicates :
            LET protected == Members(k) \cap notSafeToDelete
                removable == Members(k) \cap safeToDelete
            IN  /\ protected \cap removable = {}
                /\ removable = IF protected = {}
                               THEN Members(k) \ { duplicates[k][1] }
                               ELSE Members(k) \ protected

(***************************************************************************)
(* Vocabulary of the claims about the bot.  call names the last handler    *)
(* call; before is the requests collection as that call found it.          *)
(***************************************************************************)
\* the last call was of handler by a sender of the whitelist
Served(handler) == call.handler = handler /\ InWhiteList(call.sender, whiteList)

\* the documents the last call inserted into the requests collection
InsertedRequests == SubSeq(requests, Len(before) + 1, Len(requests))

\* the last call left the documents that were stored as they were
KeptRequests == SubSeq(requests, 1, Len(before)) = before

\* the last call wrote nothing to the requests collection
InsertedNothing == requests = before

\* the unresolved failed tracks as the last call found them
FailedBefore == GetUnresolvedFailedTracks(before, musicFiles)

\* the URLs of the sequence of failed tracks
URLsOf(tracks) == { tracks[i].SpotifyURL : i \in DOMAIN tracks }

\* the whitespace-separated fields of the text of the last call
CallFields == Fields(call.text)

\* the four conditions of a redownload: two fields, the second a track URL
\* for which no request is active and which is an unresolved failed track
RedownloadAllowed ==
    /\ Len(CallFields) = 2
    /\ HasPrefix(CallFields[2], TrackURLPrefix)
    /\ ~HasActiveRequestByURL(before, CallFields[2])
    /\ CallFields[2] \in URLsOf(FailedBefore)

C13_RefusedWitness ==
    /\ Served("HandleRedownload")
    /\ Len(CallFields) = 2
    /\ HasPrefix(CallFields[2], TrackURLPrefix)
    /\ ~HasActiveRequestByURL(before, CallFields[2])
    /\ CallFields[2] \notin URLsOf(FailedBefore)
    /\ Len(replies) = 1
    /\ InsertedNothing

\* the last call was a redownload that ended with the success reply
RedownloadSucceeded ==
    /\ Served("HandleRedownload")
    /\ \E i \in DOMAIN replies : replies[i].kind = "redownload: created"

\* C14: when HandleRedownload succeeds for the track URL u sent by sender s,
\* exactly one download request is inserted, with URL u, creator ID s, object
\* type track, expected track count 1 and exactly one track-metadata entry,
\* for u, with FailedAttempts 0, Skipped false and Found false; the webhook
\* is called exactly once and exactly one success reply is sent.
C14_RedownloadCreatesTrackRequest ==
    RedownloadSucceeded =>
        /\ KeptRequests
        /\ Len(InsertedRequests) = 1
        /\ LET r == InsertedRequests[1]
               u == CallFields[2]
           IN  /\ r.SpotifyURL = u
               /\ r.CreatorID = call.sender
               /\ r.ObjectType = "track"
               /\ r.ExpectedTrackCount = 1
               /\ Len(r.TrackMetadata) = 1
               /\ r.TrackMetadata[1].SpotifyURL = u
               /\ r.TrackMetadata[1].FailedAttempts = 0
               /\ ~r.TrackMetadata[1].Skipped
               /\ ~r.TrackMetadata[1].Found
        /\ webhookCalls = 1
        /\ Len(replies) = 1

\* a redownload succeeded for a track that had failed attempts
C14_Witness ==
    /\ RedownloadSucceeded
    /\ \E i \in DOMAIN FailedBefore :
          /\ FailedBefore[i].SpotifyURL = CallFields[2]
          /\ FailedBefore[i].FailedAttempts > 0

\* the unresolved failed tracks as the Database holds them now
Failures == GetUnresolvedFailedTracks(requests, musicFiles)

\* track j of stored request i is an unresolved failure: it is not found,
\* its URL is not blank, the library has no file of its artist and title
\* and no stored request is active for its URL
UnresolvedAt(i, j) ==
    LET t == requests[i].TrackMetadata[j]
    IN  /\ ~t.Found
        /\ TrimSpace(t.SpotifyURL) # << >>
        /\ ~musicFileExistsInsensitive(musicFiles, t.Artist, t.Title)
        /\ \A k \in DOMAIN requests :
              ~(requests[k].Active /\ requests[k].SpotifyURL = t.SpotifyURL)

\* the places << i, j >> where the URL u occurs as an unresolved failure
OccurrencesOf(u) ==
    { p \in UNION { { << i, j >> : j \in DOMAIN requests[i].TrackMetadata } :
                      i \in DOMAIN requests } :
        requests[p[1]].TrackMetadata[p[2]].SpotifyURL = u /\ UnresolvedAt(p[1], p[2]) }

\* the stored requests in which the URL u occurs as an unresolved failure
SourcesOf(u) == { p[1] : p \in OccurrencesOf(u) }

\* the timestamp of stored request i: UpdatedAt, or CreatedAt when UpdatedAt
\* is 0
SeenAt(i) == IF requests[i].UpdatedAt = 0 THEN requests[i].CreatedAt
             ELSE requests[i].UpdatedAt

\* the largest number of the non-empty set S
Max(S) == CHOOSE x \in S : \A y \in S : y <= x

\* the failed track f sums up the occurrences of its URL, one source per
\* request
SumsUpRequests(f) ==
    LET occs == OccurrencesOf(f.SpotifyURL)
    IN  /\ occs # {}
        /\ f.SourceCount = Cardinality(SourcesOf(f.SpotifyURL))
        /\ f.FailedAttempts =
              Max({ requests[p[1]].TrackMetadata[p[2]].FailedAttempts : p \in occs })
        /\ f.LastSeenAt = Max({ SeenAt(p[1]) : p \in occs })
        /\ \E p \in occs :
              /\ SeenAt(p[1]) = f.LastSeenAt
              /\ requests[p[1]].TrackMetadata[p[2]].Artist = f.Artist
              /\ requests[p[1]].TrackMetadata[p[2]].Title = f.Title

\* the sequence of failed tracks is ordered by LastSeenAt descending, ties by
\* URL ascending
OrderedByLastSeen(tracks) ==
    \A a, b \in DOMAIN tracks :
        a < b => \/ tracks[a].LastSeenAt > tracks[b].LastSeenAt
                 \/ /\ tracks[a].LastSeenAt = tracks[b].LastSeenAt
                    /\ StrLess(tracks[a].SpotifyURL, tracks[b].SpotifyURL)

\* C15: filterUnresolvedFailedTracks returns at most one FailedTrack per
\* Spotify URL; for a URL that occurs as an unresolved track in k requests,
\* SourceCount is k, FailedAttempts is the largest FailedAttempts of the
\* occurrences, LastSeenAt the largest request timestamp, Artist and Title
\* those of an occurrence with the latest timestamp; the result is ordered by
\* LastSeenAt descending, ties by URL ascending.
C15_OneFailedTrackPerURL ==
    LET tracks == Failures
    IN  /\ \A a, b \in DOMAIN tracks :
              a # b => tracks[a].SpotifyURL # tracks[b].SpotifyURL
        /\ \A a \in DOMAIN tracks : SumsUpRequests(tracks[a])
        /\ OrderedByLastSeen(tracks)

\* the URLs looked up among the failed tracks
LookedUpURLs == { TrackOne, TrackTwo, AlbumURL, BlankURL, << >> }

\* the last call was a /failed that read the unresolved failed tracks
ListedFailures ==
    /\ Served("HandleFailed")
    /\ dbOps = << "GetUnresolvedFailedTracks" >>

\* C16: filterUnresolvedFailedTracks never returns a track that is marked
\* Found, has a blank Spotify URL, exists in the library under its artist and
\* title, or has an active download request for its URL; and
\* selectFailedTrackByURL returns mongo.ErrNoDocuments for every URL that is
\* not in the returned list.
C16_ResolvedTracksAreNotListed ==
    ListedFailures =>
        LET tracks == Failures
        IN  /\ \A a \in DOMAIN tracks :
                  /\ \E i \in DOMAIN requests :
                        \E j \in DOMAIN requests[i].TrackMetadata :
                            /\ requests[i].TrackMetadata[j].SpotifyURL = tracks[a].SpotifyURL
                            /\ requests[i].TrackMetadata[j].Artist = tracks[a].Artist
                            /\ requests[i].TrackMetadata[j].Title = tracks[a].Title
                            /\ ~requests[i].TrackMetadata[j].Found
                  /\ TrimSpace(tracks[a].SpotifyURL) # << >>
                  /\ ~musicFileExistsInsensitive(musicFiles, tracks[a].Artist,
                                                 tracks[a].Title)
                  /\ \A k \in DOMAIN requests :
                        ~(requests[k].Active
                          /\ requests[k].SpotifyURL = tracks[a].SpotifyURL)
            /\ \A u \in LookedUpURLs :
                  u \notin URLsOf(tracks) =>
                      selectFailedTrackByURL(tracks, u).err = "mongo.ErrNoDocuments"

\* /failed listed a track while a track that is not found is left out
\* because a request is active for its URL
C16_Witness ==
    /\ ListedFailures
    /\ Failures # << >>
    /\ \E i, k \in DOMAIN requests :
          \E j \in DOMAIN requests[i].TrackMetadata :
              /\ ~requests[i].TrackMetadata[j].Found
              /\ requests[k].Active
              /\ requests[k].SpotifyURL = requests[i].TrackMetadata[j].SpotifyURL
              /\ requests[k].SpotifyURL \notin URLsOf(Failures)

\* ceil(n / 5)
PagesOf(n) == CHOOSE k \in 0..n : 5 * k >= n /\ (k = 0 \/ 5 * (k - 1) < n)

\* the page p (0-based) is a page of a listing of n tracks
ValidPage(n, p) == 0 <= p /\ p <= PagesOf(n) - 1

\* the page event ev shows page p of the tracks: tracks 5p+1 .. min(5p+5, n)
\* under their global numbers, no keyboard for a single page, a back button
\* only after page 0 and a forward button only before the last page
ShowsPage(ev, tracks, p) ==
    LET n == Len(tracks)
        last == IF 5 * p + 5 < n THEN 5 * p + 5 ELSE n
        labels == { ev.markup.row[i].label : i \in DOMAIN ev.markup.row }
    IN  /\ ev.text.total = n
        /\ ev.text.totalPages = PagesOf(n)
        /\ ev.text.page = p + 1
        /\ Len(ev.text.lines) = last - 5 * p
        /\ \A j \in DOMAIN ev.text.lines :
              /\ ev.text.lines[j].number = 5 * p + j
              /\ ev.text.lines[j].url = tracks[5 * p + j].SpotifyURL
        /\ PagesOf(n) = 1 => ev.markup.nil
        /\ PagesOf(n) > 1 =>
              /\ ~ev.markup.nil
              /\ "back" \in labels => p > 0
              /\ "forward" \in labels => p < PagesOf(n) - 1

\* the last call was a /failed whose read of the failed tracks did not fail
FailedListed ==
    /\ Served("HandleFailed")
    /\ \A i \in DOMAIN replies : replies[i].kind # "failed: not read"

\* the last call was a page callback with a number as its data, whose read
\* of the failed tracks did not fail
PageAsked ==
    /\ Served("HandleFailedPage")
    /\ ~Atoi(TrimSpace(call.text)).err
    /\ \A i \in DOMAIN callbackAcks : callbackAcks[i].text # "not refreshed"

C17_OutOfRangeWitness ==
    /\ PageAsked
    /\ Len(FailedBefore) >= 1
    /\ ~ValidPage(Len(FailedBefore), Atoi(TrimSpace(call.text)).value)
    /\ Atoi(TrimSpace(call.text)).value < 0

\* /failed found no failed track
C17_EmptyWitness ==
    /\ FailedListed
    /\ Len(FailedBefore) = 0
    /\ Len(replies) = 1

\* the handlers of messages
MessageHandlers ==
    { "Start", "HandleText", "HandleQueue", "HandleFailed", "HandleRedownload",
      "HandleDeactivate", "HandlePlaylist", "HandlePlaylistNoPull" }

\* C18: for every message handler of the bot, a message whose sender ID is
\* not in the whitelist causes no reply, no database read or write and no
\* webhook call; with an empty whitelist no sender is authorized.
C18_WhitelistGuardsEveryHandler ==
    (call.handler \in MessageHandlers /\ call.sender \notin whiteList) =>
        /\ replies = << >>
        /\ sentPages = << >>
        /\ dbOps = << >>
        /\ InsertedNothing
        /\ webhookCalls = 0

\* a Spotify link sent as plain text while the whitelist is empty
C18_Witness ==
    /\ call.handler = "HandleText"
    /\ whiteList = {}
    /\ IsValidSpotifyURL(call.text)
    /\ replies = << >>

(***************************************************************************)
(* Further properties of the deduplicator.                                 *)
(***************************************************************************)
\* the marking of the playlist lines has begun or is over
Marking == pc \in { "mark", "classify", "move", "done" }

\* the members of the groups that playlist line l names: those whose
\* root-relative form is the normalized form of l
NamedBy(l) ==
    UNION { { m \in Members(k) : ReferenceKey(m) = ReferenceKey(l) } :
              k \in DOMAIN duplicates }

\* C21: playlist entries that name the same library file in different
\* authored forms (absolute with the library root, root-relative, with or
\* without a leading separator) have the same reference key and protect
\* exactly the same group member, the one they name, whatever the length of
\* the entry's prefix.
C21_AuthoredFormsProtectTheSame ==
    Marking =>
        \A l \in usedFiles :
            NamedBy(l) # {} /\ ~MarkPanics(l) => MarkedBy(l) = NamedBy(l)

\* what lines 70-79 leave in safeToDelete when notSafe is notSafeToDelete:
\* the first member of a group whose first member is not in notSafe, and
\* otherwise the members of the group that are not in notSafe
SafeGiven(notSafe) ==
    UNION { IF duplicates[k][1] \notin notSafe
            THEN { duplicates[k][1] }
            ELSE Members(k) \ notSafe : k \in DOMAIN duplicates }

\* C27: once classification is complete, for every group with the members
\* m1..mn in walk order: when m1 is not in notSafeToDelete, m1 is the only
\* member in safeToDelete; when m1 is in notSafeToDelete, the members in
\* safeToDelete are exactly those not in notSafeToDelete.  safeToDelete and
\* notSafeToDelete are always disjoint.
C27_FirstMemberDecides ==
    /\ Classified =>
          \A k \in DOMAIN duplicates :
              Members(k) \cap safeToDelete =
                  IF duplicates[k][1] \notin notSafeToDelete
                  THEN { duplicates[k][1] }
                  ELSE Members(k) \ notSafeToDelete
    /\ safeToDelete \cap notSafeToDelete = {}

\* a classification in which the first member of a group is marked and
\* another member is safe to delete, and one in which no member is marked
C27_Witness ==
    /\ Classified
    /\ \E k \in DOMAIN duplicates :
          /\ duplicates[k][1] \in notSafeToDelete
          /\ Members(k) \cap safeToDelete # {}
    /\ \E k \in DOMAIN duplicates : Members(k) \cap notSafeToDelete = {}

\* what the lines L mark (lines 55-68)
MarkedByAll(L) == UNION { MarkedBy(l) : l \in L }

\* what would be safe to delete if the playlists did not hold the line x
SafeWithout(x) == SafeGiven(MarkedByAll(usedFiles \ { x }))

\* C22: adding a further non-empty line to a playlist never makes the run
\* less conservative: for the same library every file that is retained
\* without the line is still retained with it, and the number of files safe
\* to delete does not increase.
C22_MoreLinesMoreConservative ==
    Classified =>
        \A x \in usedFiles :
            /\ safeToDelete \subseteq SafeWithout(x)
            /\ Cardinality(safeToDelete) <= Cardinality(SafeWithout(x))

\* the library walk of the current invocation has just returned its index
Indexed == pc = "readdir"

\* the files below the library root that are not sidecars, when the current
\* invocation started
LibraryTracks == { p \in FilesUnder(fs0, cfg.DestinationFolder) : ~IsLrc(p) }

\* the tracks of S by their filename without its extension
ByKey(S) ==
    [k \in { BaseFilename(p) : p \in S } |-> { p \in S : BaseFilename(p) = k }]

C23_OutsideRootWitness ==
    /\ Indexed
    /\ walkErr = {}
    /\ DOMAIN duplicates # {}
    /\ \E p \in DOMAIN fs0 : ~Under(cfg.DestinationFolder, p)

\* the walk was handed an error at p or at a directory above p
Skipped(p) == \E w \in walkErr : w = p \/ Under(w, p)

\* the library tracks the walk can examine
ReadableTracks == { p \in LibraryTracks : ~Skipped(p) }

\* C24: an error at an entry of the library walk skips that entry only: the
\* walk goes on, every other file it can examine is in the index it returns
\* as if the entry were not there, and the skipped entry is in no group and
\* is never moved.
C24_WalkErrorSkipsTheEntryOnly ==
    /\ Indexed =>
          LET readable == ByKey(ReadableTracks)
          IN  \A k \in DOMAIN readable :
                  Cardinality(readable[k]) >= 2
                      => /\ k \in DOMAIN duplicates
                         /\ readable[k] \subseteq Members(k)
    /\ walkErr # {} =>
          /\ \A k \in DOMAIN duplicates : \A m \in Members(k) : ~Skipped(m)
          /\ \A a \in attempts : ~Skipped(a.src)
          /\ \A p \in DOMAIN fs0 : Skipped(p) => p \in DOMAIN fs /\ fs[p] = fs0[p]

\* the walk met an error at a file between two others of its key, indexed
\* the two others, and one of them was moved
C24_Witness ==
    /\ pc = "done"
    /\ \E w \in walkErr :
          /\ w \in DOMAIN fs0
          /\ \E k \in DOMAIN duplicates :
                /\ BaseFilename(w) = k
                /\ \E i, j \in DOMAIN duplicates[k] :
                      /\ WalkBefore(duplicates[k][i], w)
                      /\ WalkBefore(w, duplicates[k][j])
    /\ \E a \in attempts : a.ok

\* the quarantine directory joined with the filename of p (filepath.Join)
JoinedDestination(p) ==
    StripTrailingSlashes(cfg.DuplicatesFolder) \o << Slash >> \o Base(p)

\* C25: every file that was moved is a direct entry of the quarantine
\* directory under its original filename: its destination is the quarantine
\* directory joined with the filename, also when the configured directory
\* has no trailing separator, and it is not left elsewhere in the library.
C25_MovedIntoTheQuarantineDir ==
    \A a \in attempts :
        a.ok => /\ a.dst = JoinedDestination(a.src)
                /\ InQuarantine(a.dst)
                /\ a.dst \in DOMAIN fs

\* lines 83-101 and main.go:30: what a run reports: the counts logged before
\* the move loop, one "failed to move file" entry for every os.Rename that
\* failed, and the returned len(duplicates), logged as "done"
Reported ==
    [groups |-> Cardinality(DOMAIN duplicates),
     notSafe |-> Cardinality(notSafeToDelete),
     safe |-> Cardinality(safeToDelete),
     failures |-> Cardinality({ a \in attempts : ~a.ok })]

\* the files this run moved, and those it failed to move
MovedFiles == { a.src : a \in { t \in attempts : t.ok } }
FailedFiles == { a.src : a \in { t \in attempts : ~t.ok } }

\* C26: the counts a finished run reports are consistent: the groups reported
\* are the groups of the index, the files reported removed are the files
\* moved, the failures reported are the failed move attempts, and removed
\* and failed add up to the files that were safe to delete.
C26_ReportedCountsAreConsistent ==
    pc = "done" =>
        /\ Reported.groups = Cardinality(DOMAIN duplicates)
        /\ Reported.safe = Cardinality(MovedFiles)
        /\ Reported.failures = Cardinality(FailedFiles)
        /\ Cardinality(MovedFiles) + Cardinality(FailedFiles) = Cardinality(safeToDelete)

\* a playlist line names the member m of group k (one of them, when two
\* members have the same root-relative form)
Names(l, m) == ReferenceKey(l) = ReferenceKey(m)

\* C28: the key under which the indexer files a path, its filename with the
\* last extension removed, is the key the classifier computes from a
\* playlist line that names that path, also when the filename holds more
\* than one dot.
C28_IndexerAndClassifierKeysAgree ==
    Marking =>
        \A l \in usedFiles :
            \A p \in LibraryTracks : Names(l, p) => UsedSongName(l) = BaseFilename(p)

\* C29: the classification of the playlist lines completes without a
\* runtime failure for every line, whatever its length: also for a line
\* shorter than six characters whose stem is the key of a group.
C29_ClassificationNeverPanics ==
    pc # "panic"

(* A property of concurrently handled /redownload messages. *)
\* the requests inserted since the calls began that are active and for u
NewActive(u) ==
    { i \in DOMAIN InsertedRequests :
        InsertedRequests[i].Active /\ InsertedRequests[i].SpotifyURL = u }

\* C30: however the steps of concurrently handled /redownload messages for
\* the same URL interleave, at most one new active request for that URL is
\* inserted while none is deactivated.
C30_OneNewActiveRequestPerURL ==
    \A c \in DOMAIN inFlight : Cardinality(NewActive(inFlight[c].trackURL)) <= 1

====
